---- MODULE Spec2Model ----
(***************************************************************************)
(* NexusFeed: the Binance-style order book state machine                   *)
(* (nexusfeed/connectors/binance.py) and the batched persistence repo      *)
(* (nexusfeed/storage/repo.py), each as a state machine of its own.        *)
(***************************************************************************)
EXTENDS Integers, Sequences, FiniteSets, TLC

(***************************************************************************)
(* Bounds of the book model.                                               *)
(***************************************************************************)
MaxId == 3
MaxCalls == 3

(***************************************************************************)
(* Bounds of the repo model: the trades inserted, the batch_size the repo  *)
(* is constructed with, and the commits the database may refuse.           *)
(***************************************************************************)
MaxTrades == 3
BatchSize == 2
MaxFails == 1

Producers == {"p1", "p2"}
Tasks == Producers \cup {"flusher", "closer"}

\* Python's None for an update id; real update ids are >= 0.
None == 0 - 1

Symbols == {"BTC/USDT"}
Prices == {1, 2}
Qtys == {0, 1, 2}
DeltaIds == {None} \cup (1..MaxId)

\* The b and a lists a delta may carry: nothing, one level that sets,
\* overwrites or removes a price on one side (a bid at the ask price
\* included), and two levels for the same price in either order.
DeltaLevels ==
  { << << >>, << >> >>,
    << << <<1, 2>> >>, << >> >>,
    << << <<1, 0>> >>, << >> >>,
    << << <<2, 1>> >>, << >> >>,
    << << >>, << <<2, 0>> >> >>,
    << << >>, << <<2, 2>> >> >>,
    << << <<1, 0>>, <<1, 1>> >>, << <<1, 1>>, <<1, 0>> >> >>,
    << << <<2, 2>>, <<2, 0>> >>, << <<2, 0>>, <<2, 1>> >> >> }

\* What the caller-supplied snapshot fetcher may return: a plain two-sided
\* book, a book that carries a zero-size ask level, and an empty book.
\* None of them is crossed.
Snapshots ==
  { [lastUpdateId |-> 1, bids |-> << <<1, 1>> >>, asks |-> << <<2, 1>> >>],
    [lastUpdateId |-> 2, bids |-> << <<1, 2>> >>, asks |-> << <<2, 0>> >>],
    [lastUpdateId |-> 2, bids |-> << >>, asks |-> << >>] }

VARIABLES
  state,               \* BinanceOrderBookConnector.state: symbol -> book state
  snapshot_calls,      \* number of calls of the snapshot fetcher so far
  connector_restarts,  \* value of connector_restarts_total{connector}
  calls,               \* number of process_depth_delta calls so far
  call,                \* observation of the latest process_depth_delta call
  lastSnap,            \* the snapshot the fetcher returned last
  chain,               \* the gap-free run of deltas since the latest snapshot
  book_out             \* what the latest get_book call returned

VARIABLES
  batch,           \* Repo._batch: the trades enqueued and not yet flushed
  lockOwner,       \* the task holding Repo._lock, "none" when it is free
  lockWaiters,     \* the tasks waiting for Repo._lock, first come first
  shutdownSet,     \* Repo._shutdown is set
  pc,              \* where each task stands
  to_flush,        \* _flush_locked's local list, per task
  cur,             \* the trade each producer's insert_trade is inserting
  nextId,          \* number of insert_trade calls made so far
  rows,            \* the rows of table trades, in commit order
  trades_ingested, \* value of trades_ingested_total
  failsLeft,       \* commits the database may still refuse
  completed,       \* trades whose insert_trade returned normally
  before,          \* per trade: the trades completed when its insert started
  doneAtShutdown,  \* the trades completed when shutdown was called
  failedTrades     \* the trades that were in a batch whose commit failed

repoVars == <<batch, lockOwner, lockWaiters, shutdownSet, pc, to_flush, cur,
              nextId, rows, trades_ingested, failsLeft, completed, before,
              doneAtShutdown, failedTrades>>

bookVars == <<state, snapshot_calls, connector_restarts, calls, call,
              lastSnap, chain, book_out>>

VARIABLES
  snapRows,      \* the rows of table orderbook_snapshots, in insertion order
  snapPc,        \* where each insert_snapshot caller stands
  snapArg,       \* the snapshot each caller is storing
  snapExisting,  \* per caller: the row its SELECT returned, as loaded
  snapCalls,     \* number of insert_snapshot calls made so far
  lastCommit,    \* per (source, instrument): the snapshot committed last
  lastRow        \* per (source, instrument): the row the last commit wrote

snapVars == <<snapRows, snapPc, snapArg, snapExisting, snapCalls,
              lastCommit, lastRow>>

VARIABLES
  clients,      \* WebSocketPublisher.clients
  subs,         \* WebSocketPublisher.subs: instrument -> set of clients
  client_subs,  \* WebSocketPublisher.client_subs: client -> set of instruments
  hs,           \* where each client's ws_feeds handler stands
  queue,        \* WebSocketPublisher.queue: the events enqueued, oldest first
  putters,      \* the producers suspended in queue.put, first come first
  ppc,          \* where each producer's publish stands
  pcur,         \* the event each suspended producer is putting
  dpc,          \* where the dispatcher task stands
  evt,          \* the event the dispatcher is sending, 0 when none
  remaining,    \* the clients of list(targets) not yet sent to
  to_remove,    \* the clients whose send raised during this event
  nextEv,       \* number of publish calls made so far
  evs,          \* per event: its fields and what was observed about it
  sentLog       \* per client: the events a send was attempted for, in order

idxVars == <<clients, subs, client_subs>>

flowVars == <<queue, putters, ppc, pcur, dpc, evt, remaining, to_remove,
              nextEv, evs, sentLog>>

pubVars == <<idxVars, hs, flowVars>>

VARIABLES
  asked         \* per client: its latest message that names BTC against USDT

normVars == <<asked>>

VARIABLES
  poller,       \* per task that ingests, the two pollers and the handler of
                \* POST /api/v1/binance/depth: where it stands, what it ingests
  tasks,        \* FeedManager.tasks
  stopping,     \* FeedManager._stopping is set
  cancelReq,    \* the tasks cancelled and not yet resumed
  stop,         \* where stop_all stands
  fmBatch,      \* Repo._batch: the trade ids enqueued and not yet flushed
  fmRows,       \* the trade ids of table trades
  fmLock,       \* Repo._lock: the task that holds it, "free" when none does
  fmWaiters,    \* the tasks waiting for Repo._lock, in the order they came
  fmFlush,      \* to_flush of the _flush_locked whose commit is in flight
  flusher,      \* where the task Repo._worker stands
  fmSnaps,      \* table orderbook_snapshots: its rows
  cache,        \* the Redis keys book:<instrument> -> sequence
  published,    \* the events handed to the publisher
  cacheRead     \* the latest get_snapshot call

fmVars == <<poller, tasks, stopping, cancelReq, stop, fmBatch, fmRows,
            fmLock, fmWaiters, fmFlush, flusher, fmSnaps, cache, published,
            cacheRead>>

\* the lock of the repo and its background flusher
repoLockVars == <<fmLock, fmWaiters, fmFlush, flusher>>

VARIABLES
  normCall      \* the latest call of the normalizer: payload and result

nzVars == <<normCall>>

VARIABLES
  failure_counts,  \* fetch_loop: key -> consecutive failures
  backoffs,        \* fetch_loop: key -> the back-off slept last
  flRound,         \* fetch_loop: rounds begun, and when the next one begins
  flTask,          \* fetch_loop: per key, the task of the current round
  flObs,           \* per key: when its fetches began and how they ended
  pollObs          \* per FeedManager poller: the same for its iterations

pollVars == <<failure_counts, backoffs, flRound, flTask, flObs, pollObs>>

VARIABLES
  rpPc,         \* where stream_replay stands
  rpDb,         \* the tables trades and orderbook_snapshots
  rpSess,       \* the replay session
  rpSeen,       \* the two tables as the queries of stream_replay read them
  rpWrites,     \* the commits of writers since the stream began
  rpEvents,     \* stream_replay: the sorted events not yet sent
  rpPrev,       \* stream_replay: prev, None before the first event
  rpSent,       \* the events sent to the client, in order
  rpSleeps      \* per event sent: the sleep before it, 0 when there was none

replayVars == <<rpPc, rpDb, rpSess, rpSeen, rpWrites, rpEvents, rpPrev,
                rpSent, rpSleeps>>

VARIABLES
  sessions,     \* replay_service.sessions: sid -> session
  nextSid,      \* the sids handed out so far, plus one
  sessReq,      \* per session: the speed of the request that created it
  ws,           \* per connection to /ws/replay: where its ws_replay stands,
                \* sid and sess, and the locals of its stream_replay
  wsLog,        \* the error events ws_replay sent to its clients
  ssDb,         \* the tables trades and orderbook_snapshots
  ssWrites,     \* the commits of writers so far
  ended         \* the streams that ended: sid, how, error event tried

sessVars ==
  <<sessions, nextSid, sessReq, ws, wsLog, ssDb, ssWrites, ended>>

VARIABLES
  spc,          \* where the call of WebSocketPublisher.stop stands
  stopQueued    \* the events that were in the queue when stop cancelled

stopVars == <<spc, stopQueued>>

\* the variables of the components modelled further down
lateVars ==
  <<normVars, fmVars, nzVars, pollVars, replayVars, sessVars, stopVars>>

notBook == <<repoVars, snapVars, pubVars, lateVars>>

notRepo == <<bookVars, snapVars, pubVars, lateVars>>

notSnap == <<bookVars, repoVars, pubVars, lateVars>>

notPub == <<bookVars, repoVars, snapVars, lateVars>>

notNorm == <<bookVars, repoVars, snapVars, fmVars, nzVars, pollVars,
   replayVars, sessVars, stopVars>>

notFm == <<bookVars, repoVars, snapVars, pubVars, normVars, nzVars, pollVars,
   replayVars, sessVars, stopVars>>

\* post_binance_depth changes the connector's books and calls ingest_book
notFmBook == <<repoVars, snapVars, pubVars, normVars, nzVars, pollVars,
   replayVars, sessVars, stopVars>>

notNz ==
  <<bookVars, repoVars, snapVars, pubVars, normVars, fmVars, pollVars,
   replayVars, sessVars, stopVars>>

notReplay ==
  <<bookVars, repoVars, snapVars, pubVars, normVars, fmVars, nzVars,
    pollVars, sessVars, stopVars>>

\* the publisher with its stop call
notPubStop ==
  <<bookVars, repoVars, snapVars, normVars, fmVars, nzVars, pollVars,
    replayVars, sessVars>>

\* ws_replay runs stream_replay: its steps change the replay variables too
notSess ==
  <<bookVars, repoVars, snapVars, pubVars, normVars, fmVars, nzVars,
    pollVars, replayVars, stopVars>>

notPoll ==
  <<bookVars, repoVars, snapVars, pubVars, normVars, fmVars, nzVars,
   replayVars, sessVars, stopVars>>

(***************************************************************************)
(* Dictionaries price -> size, as functions on a subset of Prices.         *)
(***************************************************************************)
EmptyDict == [p \in {} |-> 0]

Pop(book, p) == [x \in (DOMAIN book) \ {p} |-> book[x]]

Put(book, p, q) ==
  [x \in (DOMAIN book) \cup {p} |-> IF x = p THEN q ELSE book[x]]

\* float(x) of a number keeps its value (1 and 1.0 are the same dict key)
Float(x) == x

\* {float(p): float(q) for p, q in levels}: the last pair of a price wins
RECURSIVE DictOfLevels(_, _)
DictOfLevels(book, levels) ==
  IF levels = << >> THEN book
  ELSE DictOfLevels(Put(book, Float(Head(levels)[1]), Float(Head(levels)[2])),
                    Tail(levels))

ApplyLevelsZeroKept(book, levels) == DictOfLevels(book, levels)

RECURSIVE ApplyLevels(_, _)
ApplyLevels(book, levels) ==
  IF levels = << >> THEN book
  ELSE LET price == Float(Head(levels)[1])
           qty == Float(Head(levels)[2])
       IN ApplyLevels(IF qty = 0 THEN Pop(book, price)
                                 ELSE Put(book, price, qty),
                      Tail(levels))

NewState == [last_update_id |-> None, bids |-> EmptyDict, asks |-> EmptyDict]

EnsureState(st, sym) ==
  IF sym \in DOMAIN st THEN st
  ELSE [x \in (DOMAIN st) \cup {sym} |-> IF x = sym THEN NewState ELSE st[x]]

\* variant: the fetched levels are written over the levels held
FetchSnapshotMerged(st, sym, snap) ==
  [EnsureState(st, sym) EXCEPT
     ![sym] = [last_update_id |-> snap.lastUpdateId,
               bids |-> DictOfLevels(EnsureState(st, sym)[sym].bids, snap.bids),
               asks |-> DictOfLevels(EnsureState(st, sym)[sym].asks, snap.asks)]]

\* fetch_snapshot with the snapshot the fetcher returned
FetchSnapshot(st, sym, snap) ==
  [EnsureState(st, sym) EXCEPT
     ![sym] = [last_update_id |-> snap.lastUpdateId,
               bids |-> DictOfLevels(EmptyDict, snap.bids),
               asks |-> DictOfLevels(EmptyDict, snap.asks)]]

\* s["last_update_id"] or 0
OrZero(id) == IF id = None \/ id = 0 THEN 0 ELSE id

\* variant: only the delta that starts at last + 1 is applied
AcceptsNextOnly(last, U, u) == U = last + 1

AcceptsAnyNewer(last, U, u) == U >= last + 1 \/ (U <= last + 1 /\ last + 1 <= u)

\* U == last + 1 or (U <= last + 1 <= u)
Accepts(last, U, u) == U = last + 1 \/ (U <= last + 1 /\ last + 1 <= u)

MissingSequenceUOnly(U, u) == U = None

\* U is None or u is None
MissingSequence(U, u) == U = None \/ u = None

DropsStaleStrict(u, last) == u # None /\ u < last

\* u is not None and u <= s["last_update_id"]
DropsStale(u, last) == u # None /\ u <= last

(***************************************************************************)
(* process_depth_delta(symbol, delta); snaps are the values the fetcher    *)
(* returns to the first and the second fetch of this call.  The result     *)
(* carries the new state, the returned flag, the number of fetches, the    *)
(* snapshot fetched last and the value of `last` the delta is judged by.   *)
(***************************************************************************)
ProcessDepthDelta(st, sym, delta, snaps) ==
  LET st0 == EnsureState(st, sym)
      first == st0[sym].last_update_id = None
      st1 == IF first THEN FetchSnapshot(st0, sym, snaps[1]) ELSE st0
      n1 == IF first THEN 1 ELSE 0
      s == st1[sym]
      last == OrZero(s.last_update_id)
      resync == FetchSnapshot(st1, sym, snaps[n1 + 1])
  IN IF first /\ DropsStale(delta.u, s.last_update_id)
       THEN [state |-> st1, ret |-> FALSE, nfetch |-> n1, last |-> last]
     ELSE IF MissingSequence(delta.U, delta.u)
       THEN [state |-> resync, ret |-> FALSE, nfetch |-> n1 + 1, last |-> last]
     ELSE IF Accepts(last, delta.U, delta.u)
       THEN [state |-> [st1 EXCEPT ![sym] =
                          [last_update_id |-> delta.u,
                           bids |-> ApplyLevels(s.bids, delta.b),
                           asks |-> ApplyLevels(s.asks, delta.a)]],
             ret |-> TRUE, nfetch |-> n1, last |-> last]
     ELSE [state |-> resync, ret |-> FALSE, nfetch |-> n1 + 1, last |-> last]

(***************************************************************************)
(* get_book: sorted copies of both sides.                                  *)
(***************************************************************************)
MaxOf(S) == CHOOSE x \in S : \A y \in S : y <= x
MinOf(S) == CHOOSE x \in S : \A y \in S : x <= y

RECURSIVE SortedDesc(_)
SortedDesc(book) ==
  IF DOMAIN book = {} THEN << >>
  ELSE LET p == MaxOf(DOMAIN book)
       IN << <<p, book[p]>> >> \o SortedDesc(Pop(book, p))

RECURSIVE SortedAsc(_)
SortedAsc(book) ==
  IF DOMAIN book = {} THEN << >>
  ELSE LET p == MinOf(DOMAIN book)
       IN << <<p, book[p]>> >> \o SortedAsc(Pop(book, p))

GetBook(st, sym) ==
  LET s == EnsureState(st, sym)[sym]
  IN [instrument |-> sym, sequence |-> s.last_update_id,
      bids |-> SortedDesc(s.bids), asks |-> SortedAsc(s.asks)]

(***************************************************************************)
(* Observation of the calls (history variables).                           *)
(***************************************************************************)
NoWrite == None
NoSnap == [lastUpdateId |-> None, bids |-> << >>, asks |-> << >>]
NoWrites == [p \in Prices |-> NoWrite]
NoBook == [instrument |-> "", sequence |-> None, bids |-> << >>, asks |-> << >>]
NoCall == [sym |-> "", U |-> None, u |-> None, hadSnap |-> FALSE,
           preLast |-> None, evalLast |-> 0, ret |-> FALSE, nfetch |-> 0,
           firstSnap |-> NoSnap]
NoChain == [valid |-> FALSE, S |-> NoSnap, n |-> 0, next |-> 0,
            bw |-> NoWrites, aw |-> NoWrites, good |-> TRUE]

\* the size written last to price p by levels, prev when p is not written
LastWrite(levels, p, prev) ==
  LET I == {i \in 1..Len(levels) : levels[i][1] = p}
  IN IF I = {} THEN prev ELSE levels[MaxOf(I)][2]

\* the delta continues the gap-free run that expects first update id next
Conforms(delta, next) ==
  /\ delta.U # None /\ delta.u # None
  /\ delta.U = next /\ delta.U <= delta.u

\* the run restarts at a snapshot when the call left the state freshly
\* reset from one, and is void when the state is anything else
Anchor(r, snap) ==
  IF ~r.ret /\ r.nfetch > 0
    THEN [NoChain EXCEPT !.valid = TRUE, !.S = snap,
                         !.next = snap.lastUpdateId + 1]
    ELSE NoChain

Extend(c, delta, ok) ==
  [c EXCEPT !.n = c.n + 1, !.next = delta.u + 1,
            !.bw = [p \in Prices |-> LastWrite(delta.b, p, c.bw[p])],
            !.aw = [p \in Prices |-> LastWrite(delta.a, p, c.aw[p])],
            !.good = c.good /\ ok]

NextChain(c, first, delta, r, snaps) ==
  LET fetched == IF r.nfetch > 0 THEN snaps[r.nfetch] ELSE NoSnap
      c0 == [NoChain EXCEPT !.valid = TRUE, !.S = snaps[1]]
  IN IF first
       THEN IF Conforms(delta, snaps[1].lastUpdateId + 1)
              THEN Extend(c0, delta, r.ret /\ r.nfetch = 1)
              ELSE Anchor(r, fetched)
       ELSE IF c.valid /\ Conforms(delta, c.next)
              THEN Extend(c, delta, r.ret /\ r.nfetch = 0)
              ELSE Anchor(r, fetched)

(***************************************************************************)
(* Actions of the book state machine.                                      *)
(***************************************************************************)
InitBook ==
  /\ state = [x \in {} |-> NewState]
  /\ snapshot_calls = 0
  /\ connector_restarts = 0
  /\ calls = 0
  /\ call = NoCall
  /\ lastSnap = NoSnap
  /\ chain = NoChain
  /\ book_out = NoBook

\* one call of process_depth_delta; fetch_snapshot increments no counter
Observe(sym, delta, snaps) ==
  \E r \in {ProcessDepthDelta(state, sym, delta, snaps)},
     pre \in {EnsureState(state, sym)[sym].last_update_id} :
     /\ state' = r.state
     /\ snapshot_calls' = snapshot_calls + r.nfetch
     /\ connector_restarts' = connector_restarts
     /\ calls' = calls + 1
     /\ call' = [sym |-> sym, U |-> delta.U, u |-> delta.u,
                 hadSnap |-> pre # None, preLast |-> pre,
                 evalLast |-> r.last, ret |-> r.ret, nfetch |-> r.nfetch,
                 firstSnap |-> IF r.nfetch > 0 THEN snaps[1] ELSE NoSnap]
     /\ lastSnap' = IF r.nfetch > 0 THEN snaps[r.nfetch] ELSE lastSnap
     /\ chain' = NextChain(chain, pre = None, delta, r, snaps)

ProcessDepthDeltaCall ==
  /\ calls < MaxCalls
  /\ \E sym \in Symbols, U \in DeltaIds, u \in DeltaIds, ba \in DeltaLevels :
       \E s1 \in Snapshots :
         \E s2 \in (IF EnsureState(state, sym)[sym].last_update_id = None
                      THEN Snapshots ELSE {s1}) :
           Observe(sym, [U |-> U, u |-> u, b |-> ba[1], a |-> ba[2]],
                   <<s1, s2>>)
  /\ book_out' = NoBook

\* get_book after the latest delta, as the depth endpoint calls it
GetBookCall ==
  /\ \E sym \in Symbols :
       /\ state' = EnsureState(state, sym)
       /\ book_out' = GetBook(state, sym)
  /\ UNCHANGED <<snapshot_calls, connector_restarts, calls, call, lastSnap, chain>>

NextBook ==
  \/ ProcessDepthDeltaCall /\ UNCHANGED notBook
  \/ GetBookCall /\ UNCHANGED notBook

(***************************************************************************)
(* The repo: insert_trade, the background flusher _run, shutdown, and      *)
(* _flush_locked.  A step runs from one suspension point to the next:      *)
(* waiting for the lock, the sleep of the flusher, the commit.             *)
(***************************************************************************)
InitRepo ==
  /\ batch = << >>
  /\ lockOwner = "none"
  /\ lockWaiters = << >>
  /\ shutdownSet = FALSE
  /\ pc = [t \in Tasks |->
             IF t = "flusher" THEN "start" ELSE "idle"]
  /\ to_flush = [t \in Tasks |-> << >>]
  /\ cur = [p \in Producers |-> 0]
  /\ nextId = 0
  /\ rows = << >>
  /\ trades_ingested = 0
  /\ failsLeft = MaxFails
  /\ completed = {}
  /\ before = [t \in 1..MaxTrades |-> {}]
  /\ doneAtShutdown = {}
  /\ failedTrades = {}

\* self._batch.append(t)
BatchAppend(b, t) == Append(b, t)

\* asyncio.Lock.acquire returns at once only if nobody holds or awaits it
LockFree == lockOwner = "none" /\ lockWaiters = << >>

\* a waiter gets the lock when it is released and it is the first in line
CanAcquire(t) == lockOwner = "none" /\ lockWaiters # << >> /\ Head(lockWaiters) = t

EnqueueWaiter(t) ==
  /\ lockWaiters' = Append(lockWaiters, t)
  /\ pc' = [pc EXCEPT ![t] = "wait_lock"]

\* variant: the lock is released before the commit is awaited
BeginFlushUnlocked(t, b) ==
  /\ to_flush' = [to_flush EXCEPT ![t] = b]
  /\ batch' = << >>
  /\ lockOwner' = "none"
  /\ pc' = [pc EXCEPT ![t] = "commit"]

\* _flush_locked up to the commit: copy the batch, clear it, open the
\* session and add the rows; the task keeps the lock while it commits
BeginFlush(t, b) ==
  /\ to_flush' = [to_flush EXCEPT ![t] = b]
  /\ batch' = << >>
  /\ lockOwner' = t
  /\ pc' = [pc EXCEPT ![t] = "commit"]

\* session.commit() succeeded: the rows are stored, the counter is raised
CommitDone(t) ==
  /\ rows' = rows \o to_flush[t]
  /\ trades_ingested' = trades_ingested + Len(to_flush[t])
  /\ to_flush' = [to_flush EXCEPT ![t] = << >>]
  /\ lockOwner' = "none"
  /\ UNCHANGED <<failsLeft, failedTrades>>

\* session.commit() raised: the exception leaves _flush_locked and the
\* async with of the lock; the copied list is gone with the frame
CommitRaised(t) ==
  /\ failsLeft > 0
  /\ failsLeft' = failsLeft - 1
  /\ failedTrades' = failedTrades \cup {to_flush[t][i] : i \in 1..Len(to_flush[t])}
  /\ to_flush' = [to_flush EXCEPT ![t] = << >>]
  /\ lockOwner' = "none"
  /\ UNCHANGED <<rows, trades_ingested>>

\* the body of insert_trade under the lock
InsertLocked(p, t) ==
  LET b == BatchAppend(batch, t)
  IN IF Len(b) >= BatchSize
       THEN /\ BeginFlush(p, b)
            /\ UNCHANGED completed
       ELSE /\ batch' = b
            /\ lockOwner' = "none"
            /\ pc' = [pc EXCEPT ![p] = "idle"]
            /\ completed' = completed \cup {t}
            /\ UNCHANGED to_flush

InsertTrade(p) ==
  /\ pc[p] = "idle"
  /\ nextId < MaxTrades
  /\ nextId' = nextId + 1
  /\ cur' = [cur EXCEPT ![p] = nextId + 1]
  /\ before' = [before EXCEPT ![nextId + 1] = completed]
  /\ IF LockFree
       THEN InsertLocked(p, nextId + 1) /\ UNCHANGED lockWaiters
       ELSE EnqueueWaiter(p) /\ UNCHANGED <<batch, lockOwner, to_flush, completed>>
  /\ UNCHANGED <<shutdownSet, rows, trades_ingested, failsLeft,
                 doneAtShutdown, failedTrades>>

InsertAcquire(p) ==
  /\ pc[p] = "wait_lock"
  /\ CanAcquire(p)
  /\ lockWaiters' = Tail(lockWaiters)
  /\ InsertLocked(p, cur[p])
  /\ UNCHANGED <<shutdownSet, cur, nextId, rows, trades_ingested, failsLeft,
                 before, doneAtShutdown, failedTrades>>

InsertCommit(p) ==
  /\ pc[p] = "commit"
  /\ CommitDone(p)
  /\ pc' = [pc EXCEPT ![p] = "idle"]
  /\ completed' = completed \cup {cur[p]}
  /\ UNCHANGED <<batch, lockWaiters, shutdownSet, cur, nextId, before,
                 doneAtShutdown>>

\* insert_trade raises to its caller
InsertCommitFail(p) ==
  /\ pc[p] = "commit"
  /\ CommitRaised(p)
  /\ pc' = [pc EXCEPT ![p] = "idle"]
  /\ UNCHANGED <<batch, lockWaiters, shutdownSet, cur, nextId, completed,
                 before, doneAtShutdown>>

\* while not self._shutdown.is_set(): await asyncio.sleep(...)
LoopTop == IF shutdownSet THEN "done" ELSE "sleep"

\* the body of _run under the lock
FlusherLocked ==
  IF batch # << >>
    THEN BeginFlush("flusher", batch)
    ELSE /\ lockOwner' = "none"
         /\ pc' = [pc EXCEPT !["flusher"] = LoopTop]
         /\ UNCHANGED <<batch, to_flush>>

\* the worker task runs for the first time
FlusherStart ==
  /\ pc["flusher"] = "start"
  /\ pc' = [pc EXCEPT !["flusher"] = LoopTop]
  /\ UNCHANGED <<batch, lockOwner, lockWaiters, shutdownSet, to_flush, cur,
                 nextId, rows, trades_ingested, failsLeft, completed, before,
                 doneAtShutdown, failedTrades>>

\* the sleep of flush_interval is over
FlusherWake ==
  /\ pc["flusher"] = "sleep"
  /\ IF LockFree
       THEN FlusherLocked /\ UNCHANGED lockWaiters
       ELSE EnqueueWaiter("flusher") /\ UNCHANGED <<batch, lockOwner, to_flush>>
  /\ UNCHANGED <<shutdownSet, cur, nextId, rows, trades_ingested, failsLeft,
                 completed, before, doneAtShutdown, failedTrades>>

FlusherAcquire ==
  /\ pc["flusher"] = "wait_lock"
  /\ CanAcquire("flusher")
  /\ lockWaiters' = Tail(lockWaiters)
  /\ FlusherLocked
  /\ UNCHANGED <<shutdownSet, cur, nextId, rows, trades_ingested, failsLeft,
                 completed, before, doneAtShutdown, failedTrades>>

FlusherCommit ==
  /\ pc["flusher"] = "commit"
  /\ CommitDone("flusher")
  /\ pc' = [pc EXCEPT !["flusher"] = LoopTop]
  /\ UNCHANGED <<batch, lockWaiters, shutdownSet, cur, nextId, completed,
                 before, doneAtShutdown>>

\* the exception leaves _run: the worker task ends with it
FlusherCommitFail ==
  /\ pc["flusher"] = "commit"
  /\ CommitRaised("flusher")
  /\ pc' = [pc EXCEPT !["flusher"] = "dead"]
  /\ UNCHANGED <<batch, lockWaiters, shutdownSet, cur, nextId, completed,
                 before, doneAtShutdown>>

\* shutdown(): set the event and await the worker
Shutdown ==
  /\ pc["closer"] = "idle"
  /\ shutdownSet' = TRUE
  /\ doneAtShutdown' = completed
  /\ pc' = [pc EXCEPT !["closer"] = "await_worker"]
  /\ UNCHANGED <<batch, lockOwner, lockWaiters, to_flush, cur, nextId, rows,
                 trades_ingested, failsLeft, completed, before, failedTrades>>

\* the body of shutdown under the lock
ShutdownLocked ==
  IF batch # << >>
    THEN BeginFlush("closer", batch)
    ELSE /\ lockOwner' = "none"
         /\ pc' = [pc EXCEPT !["closer"] = "returned"]
         /\ UNCHANGED <<batch, to_flush>>

\* the worker ended (its exception, if any, is swallowed); take the lock
ShutdownJoin ==
  /\ pc["closer"] = "await_worker"
  /\ pc["flusher"] \in {"done", "dead"}
  /\ IF LockFree
       THEN ShutdownLocked /\ UNCHANGED lockWaiters
       ELSE EnqueueWaiter("closer") /\ UNCHANGED <<batch, lockOwner, to_flush>>
  /\ UNCHANGED <<shutdownSet, cur, nextId, rows, trades_ingested, failsLeft,
                 completed, before, doneAtShutdown, failedTrades>>

ShutdownAcquire ==
  /\ pc["closer"] = "wait_lock"
  /\ CanAcquire("closer")
  /\ lockWaiters' = Tail(lockWaiters)
  /\ ShutdownLocked
  /\ UNCHANGED <<shutdownSet, cur, nextId, rows, trades_ingested, failsLeft,
                 completed, before, doneAtShutdown, failedTrades>>

ShutdownCommit ==
  /\ pc["closer"] = "commit"
  /\ CommitDone("closer")
  /\ pc' = [pc EXCEPT !["closer"] = "returned"]
  /\ UNCHANGED <<batch, lockWaiters, shutdownSet, cur, nextId, completed,
                 before, doneAtShutdown>>

\* shutdown raises to its caller
ShutdownCommitFail ==
  /\ pc["closer"] = "commit"
  /\ CommitRaised("closer")
  /\ pc' = [pc EXCEPT !["closer"] = "raised"]
  /\ UNCHANGED <<batch, lockWaiters, shutdownSet, cur, nextId, completed,
                 before, doneAtShutdown>>

NextRepo ==
  \/ \E p \in Producers : InsertTrade(p) /\ UNCHANGED notRepo
  \/ \E p \in Producers : InsertAcquire(p) /\ UNCHANGED notRepo
  \/ \E p \in Producers : InsertCommit(p) /\ UNCHANGED notRepo
  \/ \E p \in Producers : InsertCommitFail(p) /\ UNCHANGED notRepo
  \/ FlusherStart /\ UNCHANGED notRepo
  \/ FlusherWake /\ UNCHANGED notRepo
  \/ FlusherAcquire /\ UNCHANGED notRepo
  \/ FlusherCommit /\ UNCHANGED notRepo
  \/ FlusherCommitFail /\ UNCHANGED notRepo
  \/ Shutdown /\ UNCHANGED notRepo
  \/ ShutdownJoin /\ UNCHANGED notRepo
  \/ ShutdownAcquire /\ UNCHANGED notRepo
  \/ ShutdownCommit /\ UNCHANGED notRepo
  \/ ShutdownCommitFail /\ UNCHANGED notRepo

(***************************************************************************)
(* Repo.insert_snapshot (storage/repo.py).  A call reads the row of its    *)
(* (source, instrument) with a SELECT, suspends, then writes the row it    *)
(* read, or a new row when it read none, and commits.  The table has a     *)
(* primary key id and no unique constraint on (source, instrument)         *)
(* (storage/models.py).  A snapshot's bids, asks and ts are stood for by   *)
(* the number of the call that carries them.                               *)
(***************************************************************************)
MaxSnapCalls == 4

Writers == {"w1", "w2"}

SnapKeys == { <<"binance", "BTC/USDT">>, <<"kraken", "BTC/USDT">> }

SnapSeqs == {1, 2}

NoCommit == [sequence |-> None, data |-> 0]

NoArg == [source |-> "", instrument |-> "", sequence |-> None, data |-> 0]

\* res.first() was None
NoExisting == [row |-> 0, sequence |-> None, data |-> 0]

InitSnap ==
  /\ snapRows = << >>
  /\ snapPc = [w \in Writers |-> "idle"]
  /\ snapArg = [w \in Writers |-> NoArg]
  /\ snapExisting = [w \in Writers |-> NoExisting]
  /\ snapCalls = 0
  /\ lastCommit = [k \in SnapKeys |-> NoCommit]
  /\ lastRow = [k \in SnapKeys |-> 0]

\* select(OrderbookSnapshot).where(source == src, instrument == instr),
\* then res.first(): the first matching row, 0 when there is none
SelectFirst(table, src, instr) ==
  LET hits == { i \in 1..Len(table) :
                  table[i].source = src /\ table[i].instrument = instr }
  IN IF hits = {} THEN 0 ELSE CHOOSE i \in hits : \A j \in hits : i <= j

\* the object res.first() returns: row i of the table with the values it
\* had when the SELECT ran
Loaded(table, i) ==
  IF i = 0 THEN NoExisting
  ELSE [row |-> i, sequence |-> table[i].sequence, data |-> table[i].data]

\* the write of insert_snapshot.  The sequence, bids, asks and ts of the
\* snapshot are assigned to the object read and the commit sends an UPDATE
\* of that row with the attributes whose assigned value differs from the
\* loaded one: an attribute assigned the value it was loaded with keeps
\* whatever the row holds by then.  When no row was read a new row is added
Upsert(table, existing, snap) ==
  IF existing.row # 0
  THEN [table EXCEPT
          ![existing.row].sequence =
             IF snap.sequence # existing.sequence THEN snap.sequence ELSE @,
          ![existing.row].data =
             IF snap.data # existing.data THEN snap.data ELSE @]
  ELSE Append(table, snap)

\* insert_snapshot up to the result of its SELECT
SnapshotSelect(w) ==
  /\ snapPc[w] = "idle"
  /\ snapCalls < MaxSnapCalls
  /\ \E k \in SnapKeys, seq \in SnapSeqs :
       /\ snapArg' = [snapArg EXCEPT ![w] =
                        [source |-> k[1], instrument |-> k[2],
                         sequence |-> seq, data |-> snapCalls + 1]]
       /\ snapExisting' = [snapExisting EXCEPT
                             ![w] = Loaded(snapRows,
                                           SelectFirst(snapRows, k[1], k[2]))]
  /\ snapCalls' = snapCalls + 1
  /\ snapPc' = [snapPc EXCEPT ![w] = "selected"]
  /\ UNCHANGED <<snapRows, lastCommit, lastRow>>

\* insert_snapshot from the result of its SELECT to the end of its commit
SnapshotCommit(w) ==
  /\ snapPc[w] = "selected"
  /\ snapRows' = Upsert(snapRows, snapExisting[w], snapArg[w])
  /\ LET k == <<snapArg[w].source, snapArg[w].instrument>>
     IN /\ lastCommit' = [lastCommit EXCEPT ![k] =
                            [sequence |-> snapArg[w].sequence,
                             data |-> snapArg[w].data]]
        /\ lastRow' = [lastRow EXCEPT ![k] =
                         IF snapExisting[w].row # 0 THEN snapExisting[w].row
                         ELSE Len(snapRows) + 1]
  /\ snapPc' = [snapPc EXCEPT ![w] = "idle"]
  /\ UNCHANGED <<snapArg, snapExisting, snapCalls>>

NextSnap ==
  \/ \E w \in Writers : SnapshotSelect(w) /\ UNCHANGED notSnap
  \/ \E w \in Writers : SnapshotCommit(w) /\ UNCHANGED notSnap

(***************************************************************************)
(* The repo for as long as nobody calls shutdown.  The event loop runs     *)
(* every task that is ready: the flusher when its sleep is over, when it   *)
(* is first in line for the free lock and when its commit has ended, and   *)
(* each insert_trade in the same way.                                      *)
(***************************************************************************)
FlusherStep ==
  \/ FlusherStart /\ UNCHANGED notRepo
  \/ FlusherWake /\ UNCHANGED notRepo
  \/ FlusherAcquire /\ UNCHANGED notRepo
  \/ FlusherCommit /\ UNCHANGED notRepo
  \/ FlusherCommitFail /\ UNCHANGED notRepo

InsertStep(p) ==
  \/ InsertAcquire(p) /\ UNCHANGED notRepo
  \/ InsertCommit(p) /\ UNCHANGED notRepo
  \/ InsertCommitFail(p) /\ UNCHANGED notRepo

NextRepoRunning ==
  \/ \E p \in Producers : InsertTrade(p) /\ UNCHANGED notRepo
  \/ \E p \in Producers : InsertStep(p)
  \/ FlusherStep

(***************************************************************************)
(* WebSocketPublisher (publisher/websocket_pub.py) with its callers: the   *)
(* ws_feeds handler of each client (main.py) and the producers that call   *)
(* publish.  register, unregister, subscribe and unsubscribe contain no    *)
(* suspension point and are one step each.  publish suspends in queue.put  *)
(* when the queue is full.  The dispatcher suspends in queue.get and in    *)
(* each send_json; the unregister calls that follow the last send of an    *)
(* event run in the same step as the end of that send.                     *)
(***************************************************************************)
\* events published and queue_size of the publisher under client churn
MaxEvents == 2

SmallQueue == 1

\* events published and queue_size of the publisher under a burst
MaxBurst == 3

BurstQueue == 2

Clients == {"c1", "c2"}

Pubs == {"q1", "q2"}

\* the producer that publishes while clients come and go
ChurnPubs == {"q1"}

\* the instrument field of a published event; "" stands for a missing one
PubInstruments == {"BTC/USDT", ""}

\* the instrument strings clients send in subscribe and unsubscribe messages
WireInstruments == {"BTC/USDT", "BTC-USDT", "ETH/USDT"}

\* variant: the instrument is kept as the client spelled it
NormAsSpelled(instr) == instr

\* _norm: instr.replace("-", "/") on the strings above
Norm(instr) == IF instr = "BTC-USDT" THEN "BTC/USDT" ELSE instr

NoSubs == [i \in {} |-> {}]

NoEvent ==
  [instrument |-> "", producer |-> "", atPublish |-> {}, atDequeue |-> {},
   failed |-> {}, blockedPut |-> FALSE, done |-> FALSE, old |-> FALSE]

InitPub ==
  /\ clients = {}
  /\ subs = NoSubs
  /\ client_subs = NoSubs
  /\ hs = [c \in Clients |-> "new"]
  /\ queue = << >>
  /\ putters = << >>
  /\ ppc = [p \in Pubs |-> "idle"]
  /\ pcur = [p \in Pubs |-> 0]
  /\ dpc = "none"
  /\ evt = 0
  /\ remaining = {}
  /\ to_remove = {}
  /\ nextEv = 0
  /\ evs = [e \in {} |-> NoEvent]
  /\ sentLog = [c \in Clients |-> << >>]

\* d.get(k) or set()
GetOrEmpty(d, k) == IF k \in DOMAIN d THEN d[k] ELSE {}

\* d with key k removed
Without(d, k) == [x \in DOMAIN d \ {k} |-> d[x]]

\* d with d[k] = v
With(d, k, v) == [x \in DOMAIN d \cup {k} |-> IF x = k THEN v ELSE d[x]]

\* the three collections after register(ws)
RegisterOp(P, c) ==
  [clients |-> P.clients \cup {c},
   subs |-> P.subs,
   client_subs |-> With(P.client_subs, c, {})]

\* the three collections after unregister(ws)
UnregisterOp(P, c) ==
  LET mine == GetOrEmpty(P.client_subs, c)
      hit(i) == i \in mine /\ P.subs[i] # {} /\ c \in P.subs[i]
  IN [clients |-> P.clients \ {c},
      subs |-> [i \in { j \in DOMAIN P.subs : ~(hit(j) /\ P.subs[j] = {c}) }
                  |-> IF hit(i) THEN P.subs[i] \ {c} ELSE P.subs[i]],
      client_subs |-> Without(P.client_subs, c)]

\* the three collections after subscribe(ws, instrument)
SubscribeOp(P, c, wire) ==
  LET instr == Norm(wire)
  IN [clients |-> P.clients,
      subs |-> With(P.subs, instr, GetOrEmpty(P.subs, instr) \cup {c}),
      client_subs |-> With(P.client_subs, c,
                           GetOrEmpty(P.client_subs, c) \cup {instr})]

\* the three collections after unsubscribe(ws, instrument)
UnsubscribeOp(P, c, wire) ==
  LET instr == Norm(wire)
      s == GetOrEmpty(P.subs, instr)
  IN [clients |-> P.clients,
      subs |-> IF c \in s
               THEN IF s = {c} THEN Without(P.subs, instr)
                    ELSE With(P.subs, instr, s \ {c})
               ELSE P.subs,
      client_subs |-> IF instr \in GetOrEmpty(P.client_subs, c)
                      THEN With(P.client_subs, c, P.client_subs[c] \ {instr})
                      ELSE P.client_subs]

\* for ws in to_remove: await self.unregister(ws)
RECURSIVE UnregisterAll(_, _)
UnregisterAll(P, S) ==
  IF S = {} THEN P
  ELSE LET c == CHOOSE x \in S : TRUE
       IN UnregisterAll(UnregisterOp(P, c), S \ {c})

Pub == [clients |-> clients, subs |-> subs, client_subs |-> client_subs]

SetPub(P) ==
  /\ clients' = P.clients
  /\ subs' = P.subs
  /\ client_subs' = P.client_subs

Register(c) == SetPub(RegisterOp(Pub, c))

Unregister(c) == SetPub(UnregisterOp(Pub, c))

Subscribe(c, wire) == SetPub(SubscribeOp(Pub, c, wire))

Unsubscribe(c, wire) == SetPub(UnsubscribeOp(Pub, c, wire))

\* ws_feeds: accept, then register
HandlerRegister(c) ==
  /\ hs[c] = "new"
  /\ Register(c)
  /\ hs' = [hs EXCEPT ![c] = "open"]
  /\ UNCHANGED flowVars

\* ws_feeds: a subscribe message
HandlerSubscribe(c) ==
  /\ hs[c] = "open"
  /\ \E wire \in WireInstruments : Subscribe(c, wire)
  /\ UNCHANGED <<hs, flowVars>>

\* ws_feeds: an unsubscribe message
HandlerUnsubscribe(c) ==
  /\ hs[c] = "open"
  /\ \E wire \in WireInstruments : Unsubscribe(c, wire)
  /\ UNCHANGED <<hs, flowVars>>

\* ws_feeds: the receive loop ended, finally: unregister
HandlerExit(c) ==
  /\ hs[c] = "open"
  /\ Unregister(c)
  /\ hs' = [hs EXCEPT ![c] = "gone"]
  /\ UNCHANGED flowVars

\* variant: the queue never reports itself full
QueueFullNever(q, cap) == FALSE

\* asyncio.Queue(maxsize=queue_size).full()
QueueFull(q, cap) == Len(q) >= cap

\* variant: a new event goes to the head of the queue
QueuePutFirst(q, e) == <<e>> \o q

\* asyncio.Queue._put: a new event goes to the end of the queue
QueuePut(q, e) == Append(q, e)

\* variant: every client of any instrument
TargetsOfAll(sb, instr) == UNION { sb[i] : i \in DOMAIN sb }

\* self.subs.get(instr) or set(), nothing for an event without instrument
Targets(sb, instr) == IF instr = "" THEN {} ELSE GetOrEmpty(sb, instr)

\* the clients subscribed to an instrument, read off subs
SubscribersOf(instr) ==
  { c \in Clients : instr \in DOMAIN subs /\ c \in subs[instr] }

\* the clients whose unregister has returned: the handler registers its
\* client once, when it starts
Unregistered(c) == hs[c] # "new" /\ c \notin clients

\* publish: put_nowait, and when the queue is full the start of queue.put;
\* instrs are the instrument fields the event may carry
PublishOf(p, max, cap, instrs) ==
  /\ ppc[p] = "idle"
  /\ nextEv < max
  /\ nextEv' = nextEv + 1
  /\ \E instr \in instrs :
       evs' = With(evs, nextEv + 1,
                   [NoEvent EXCEPT !.instrument = instr, !.producer = p,
                                   !.atPublish = SubscribersOf(instr),
                                   !.blockedPut = QueueFull(queue, cap)])
  /\ IF QueueFull(queue, cap)
     THEN /\ putters' = Append(putters, p)
          /\ ppc' = [ppc EXCEPT ![p] = "blocked"]
          /\ pcur' = [pcur EXCEPT ![p] = nextEv + 1]
          /\ UNCHANGED queue
     ELSE /\ queue' = QueuePut(queue, nextEv + 1)
          /\ UNCHANGED <<putters, ppc, pcur>>
  /\ UNCHANGED <<idxVars, hs, dpc, evt, remaining, to_remove, sentLog>>

Publish(p, max, cap) == PublishOf(p, max, cap, PubInstruments)

\* queue.put resumes after a get woke it: it enqueues, or waits again when
\* another producer filled the queue in between
PutResume(p, cap) ==
  /\ ppc[p] = "woken"
  /\ IF QueueFull(queue, cap)
     THEN /\ putters' = Append(putters, p)
          /\ ppc' = [ppc EXCEPT ![p] = "blocked"]
          /\ UNCHANGED <<queue, pcur>>
     ELSE /\ queue' = QueuePut(queue, pcur[p])
          /\ ppc' = [ppc EXCEPT ![p] = "idle"]
          /\ pcur' = [pcur EXCEPT ![p] = 0]
          /\ UNCHANGED putters
  /\ UNCHANGED <<idxVars, hs, dpc, evt, remaining, to_remove, nextEv, evs,
                 sentLog>>

\* start(): the dispatcher task is created
Start ==
  /\ dpc = "none"
  /\ dpc' = "get"
  /\ UNCHANGED <<idxVars, hs, queue, putters, ppc, pcur, evt, remaining,
                 to_remove, nextEv, evs, sentLog>>

\* what is kept about the events dispatched before the latest one: their
\* instrument and producer
Forgotten ==
  [e \in DOMAIN evs |->
     IF evs[e].done
     THEN [NoEvent EXCEPT !.instrument = evs[e].instrument,
                          !.producer = evs[e].producer, !.done = TRUE,
                          !.old = TRUE]
     ELSE evs[e]]

\* _run: queue.get returns the oldest event and wakes the first suspended
\* producer; the targets are copied; an event without instrument or
\* without subscribers ends here
Dequeue ==
  /\ dpc = "get"
  /\ queue # << >>
  /\ queue' = Tail(queue)
  /\ IF putters # << >>
     THEN /\ ppc' = [ppc EXCEPT ![Head(putters)] = "woken"]
          /\ putters' = Tail(putters)
     ELSE UNCHANGED <<ppc, putters>>
  /\ \E e \in {Head(queue)} :
     \E T \in {Targets(subs, evs[e].instrument)} :
       IF T = {}
       THEN /\ evs' = [Forgotten EXCEPT
                         ![e].atDequeue = SubscribersOf(evs[e].instrument),
                         ![e].done = TRUE]
            /\ UNCHANGED <<dpc, evt, remaining>>
       ELSE /\ evs' = [Forgotten EXCEPT
                         ![e].atDequeue = SubscribersOf(evs[e].instrument)]
            /\ dpc' = "send"
            /\ evt' = e
            /\ remaining' = T
  /\ UNCHANGED <<idxVars, hs, pcur, to_remove, nextEv, sentLog>>

\* variant: the loop over the targets ends at the first send that raises
AfterSendStopOnFail(rem, c, ok) == IF ok THEN rem \ {c} ELSE {}

\* the clients of list(targets) still to be sent to after the send to c
AfterSend(rem, c, ok) == rem \ {c}

\* variant: a client whose send raised is not remembered
ToRemoveNone(tr, c, ok) == tr

\* to_remove after the send to c: except Exception: to_remove.append(ws)
ToRemove(tr, c, ok) == IF ok THEN tr ELSE tr \cup {c}

\* _run: one send_json returns or raises; after the last one the clients
\* of to_remove are unregistered and the dispatcher is back at queue.get
Send(outcomes) ==
  /\ dpc = "send"
  /\ \E c \in remaining, ok \in outcomes :
     \E rem \in {AfterSend(remaining, c, ok)},
        tr \in {ToRemove(to_remove, c, ok)} :
       /\ sentLog' = [sentLog EXCEPT ![c] = Append(@, evt)]
       /\ IF rem = {}
          THEN /\ SetPub(UnregisterAll(Pub, tr))
               /\ evs' = [evs EXCEPT ![evt].done = TRUE,
                                     ![evt].failed =
                                        IF ok THEN @ ELSE @ \cup {c}]
               /\ dpc' = "get"
               /\ evt' = 0
               /\ remaining' = {}
               /\ to_remove' = {}
          ELSE /\ evs' = [evs EXCEPT ![evt].failed =
                                        IF ok THEN @ ELSE @ \cup {c}]
               /\ remaining' = rem
               /\ to_remove' = tr
               /\ UNCHANGED <<idxVars, dpc, evt>>
  /\ UNCHANGED <<hs, queue, putters, ppc, pcur, nextEv>>

NextPub ==
  \/ \E c \in Clients : HandlerRegister(c) /\ UNCHANGED notPub
  \/ \E c \in Clients : HandlerSubscribe(c) /\ UNCHANGED notPub
  \/ \E c \in Clients : HandlerUnsubscribe(c) /\ UNCHANGED notPub
  \/ \E c \in Clients : HandlerExit(c) /\ UNCHANGED notPub
  \/ \E p \in ChurnPubs : Publish(p, MaxEvents, SmallQueue) /\ UNCHANGED notPub
  \/ \E p \in ChurnPubs : PutResume(p, SmallQueue) /\ UNCHANGED notPub
  \/ Start /\ UNCHANGED notPub
  \/ Dequeue /\ UNCHANGED notPub
  \/ Send(BOOLEAN) /\ UNCHANGED notPub

\* a longer burst of events, for clients that stay connected, keep their
\* subscriptions and take every send
NextPubQueue ==
  \/ \E c \in Clients : HandlerRegister(c) /\ UNCHANGED notPub
  \/ \E c \in Clients : HandlerSubscribe(c) /\ UNCHANGED notPub
  \/ \E p \in Pubs : Publish(p, MaxBurst, BurstQueue) /\ UNCHANGED notPub
  \/ \E p \in Pubs : PutResume(p, BurstQueue) /\ UNCHANGED notPub
  \/ Start /\ UNCHANGED notPub
  \/ Dequeue /\ UNCHANGED notPub
  \/ Send({TRUE}) /\ UNCHANGED notPub

\* the four calls in any order, for any client
ApiRegister(c) == Register(c) /\ UNCHANGED <<hs, flowVars>>

ApiUnregister(c) == Unregister(c) /\ UNCHANGED <<hs, flowVars>>

ApiSubscribe(c) ==
  /\ \E wire \in WireInstruments : Subscribe(c, wire)
  /\ UNCHANGED <<hs, flowVars>>

ApiUnsubscribe(c) ==
  /\ \E wire \in WireInstruments : Unsubscribe(c, wire)
  /\ UNCHANGED <<hs, flowVars>>

NextPubApi ==
  \/ \E c \in Clients : ApiRegister(c) /\ UNCHANGED notPub
  \/ \E c \in Clients : ApiUnregister(c) /\ UNCHANGED notPub
  \/ \E c \in Clients : ApiSubscribe(c) /\ UNCHANGED notPub
  \/ \E c \in Clients : ApiUnsubscribe(c) /\ UNCHANGED notPub

(***************************************************************************)
(* The publisher with clients that spell one instrument in two ways and    *)
(* producers that publish it under either spelling.                        *)
(***************************************************************************)
\* the two spellings of one instrument
BtcSpellings == {"BTC/USDT", "BTC-USDT"}

NoMsg == [op |-> "", instrument |-> ""]

InitNorm == asked = [c \in Clients |-> NoMsg]

\* the client's latest message naming the instrument, after one more message
Asked(c, op, wire) ==
  IF wire \in BtcSpellings
  THEN [asked EXCEPT ![c] = [op |-> op, instrument |-> wire]]
  ELSE asked

\* ws_feeds: a subscribe message, with the spelling the client chose
SpelledSubscribe(c) ==
  /\ hs[c] = "open"
  /\ \E wire \in WireInstruments :
       /\ Subscribe(c, wire)
       /\ asked' = Asked(c, "subscribe", wire)
  /\ UNCHANGED <<hs, flowVars>>

\* ws_feeds: an unsubscribe message, with the spelling the client chose
SpelledUnsubscribe(c) ==
  /\ hs[c] = "open"
  /\ \E wire \in WireInstruments :
       /\ Unsubscribe(c, wire)
       /\ asked' = Asked(c, "unsubscribe", wire)
  /\ UNCHANGED <<hs, flowVars>>

NextPubNorm ==
  \/ \E c \in Clients : HandlerRegister(c) /\ UNCHANGED <<asked, notNorm>>
  \/ \E c \in Clients : SpelledSubscribe(c) /\ UNCHANGED notNorm
  \/ \E c \in Clients : SpelledUnsubscribe(c) /\ UNCHANGED notNorm
  \/ \E p \in ChurnPubs :
       PublishOf(p, MaxEvents, SmallQueue, BtcSpellings)
       /\ UNCHANGED <<asked, notNorm>>
  \/ \E p \in ChurnPubs :
       PutResume(p, SmallQueue) /\ UNCHANGED <<asked, notNorm>>
  \/ Start /\ UNCHANGED <<asked, notNorm>>
  \/ Dequeue /\ UNCHANGED <<asked, notNorm>>
  \/ Send({TRUE}) /\ UNCHANGED <<asked, notNorm>>

(***************************************************************************)
(* normalize_trade and normalize_book (normalizer/normalizer.py).  A raw   *)
(* payload is a record holding the keys the venue sent.  The side, the     *)
(* timestamp and the price levels of a payload are left out.               *)
(***************************************************************************)
\* None where the code expects a string
NoneStr == "None"

\* raw.get(k) for a key holding a string
GetS(raw, k) == IF k \in DOMAIN raw THEN raw[k] ELSE NoneStr

\* raw.get(k) for a key holding a number
GetN(raw, k) == IF k \in DOMAIN raw THEN raw[k] ELSE None

\* a or b, on strings: None and "" are falsy
OrS(a, b) == IF a \notin {NoneStr, ""} THEN a ELSE b

\* a or b, on numbers: None and 0 are falsy
OrN(a, b) == IF a \notin {None, 0} THEN a ELSE b

\* normalize_trade(raw, source); the trade ids of the payloads are strings,
\* which str() returns as they are, and float() keeps the value of a number
normalize_trade(raw, source) ==
  [source |-> source,
   instrument |-> OrS(OrS(GetS(raw, "symbol"), GetS(raw, "instrument")),
                      GetS(raw, "pair")),
   trade_id |-> OrS(OrS(GetS(raw, "id"), GetS(raw, "trade_id")),
                    GetS(raw, "tid")),
   price |-> GetN(raw, "price"),
   size |-> OrN(OrN(GetN(raw, "amount"), GetN(raw, "qty")),
                GetN(raw, "size"))]

\* normalize_book(raw, source)
normalize_book(raw, source) ==
  [source |-> source,
   instrument |-> OrS(OrS(GetS(raw, "symbol"), GetS(raw, "instrument")),
                      GetS(raw, "pair")),
   sequence |-> OrN(OrN(GetN(raw, "nonce"), GetN(raw, "sequence")),
                    GetN(raw, "seq"))]

(***************************************************************************)
(* FeedManager (services/feed_manager.py) for one connector with one       *)
(* symbol: start_all creates the trades poller and the books poller,       *)
(* stop_all cancels and awaits them and shuts the repo down; the handler   *)
(* of POST /api/v1/binance/depth (main.py) calls ingest_book from a task   *)
(* of its own.  A task takes one step from one await to the next.  The     *)
(* repo is the one of storage/repo.py with a database that accepts every   *)
(* commit of trades; the cache is storage/redis_cache.py; the publisher    *)
(* accepts every event.                                                    *)
(***************************************************************************)
\* fetches a poller makes
MaxFetches == 2

PollerNames == {"trades", "books"}

\* the tasks that call ingest_book: the books poller and post_binance_depth
BookTasks == {"books", "http"}

IngestTasks == PollerNames \cup BookTasks

\* self.tasks after start_all, in the order of its appends
TaskOrder == <<"trades", "books">>

Source == "binance"

\* what connector.get_trades returns
TradeFetches ==
  { << >>,
    << [symbol |-> "BTC/USDT", id |-> "a", price |-> 1, amount |-> 1] >>,
    << [symbol |-> "BTC/USDT", id |-> "a", price |-> 1, amount |-> 1],
       [symbol |-> "BTC/USDT", id |-> "b", amount |-> 1],
       [pair |-> "BTC/USDT", tid |-> "c", price |-> 3, qty |-> 2] >> }

\* what connector.get_orderbook returns
BookFetches ==
  { [symbol |-> "BTC/USDT", nonce |-> 1],
    [instrument |-> "BTC/USDT", seq |-> 2],
    [pair |-> "", nonce |-> 3] }

NoOut == [source |-> "", instrument |-> "", trade_id |-> "", price |-> None,
          size |-> None, sequence |-> None]

\* a poller before start_all or the handler before its request, and what
\* is known of its latest fetch before it returned
NoPoller ==
  [pc |-> "none", fetches |-> 0, fetched |-> << >>, idx |-> 0, out |-> NoOut,
   existing |-> NoExisting, persisted |-> FALSE, cache |-> "no", published |-> FALSE,
   result |-> "", ingested |-> {}]

NoRead == [called |-> FALSE, failed |-> FALSE, raised |-> FALSE, value |-> None]

InitFm ==
  /\ poller = [k \in IngestTasks |-> NoPoller]
  /\ tasks = << >>
  /\ stopping = FALSE
  /\ cancelReq = {}
  /\ stop = [pc |-> "idle", i |-> 0]
  /\ fmBatch = << >>
  /\ fmRows = << >>
  /\ fmLock = "free"
  /\ fmWaiters = << >>
  /\ fmFlush = << >>
  /\ flusher = "new"
  /\ fmSnaps = << >>
  /\ cache = NoSubs
  /\ published = {}
  /\ cacheRead = NoRead

\* except Exception: which exceptions the clause catches
Catches(exc) == exc # "CancelledError"

\* start_all: one task per poller
StartAll ==
  /\ tasks = << >>
  /\ tasks' = TaskOrder
  /\ poller' = [k \in IngestTasks |->
                  IF k \in PollerNames THEN [NoPoller EXCEPT !.pc = "new"]
                  ELSE poller[k]]
  /\ UNCHANGED <<stopping, cancelReq, stop, fmBatch, fmRows, repoLockVars,
                 fmSnaps, cache, published, cacheRead>>

\* while not self._stopping.is_set(): the next fetch starts, or the poller
\* returns
PollLoopTop(k) ==
  [poller[k] EXCEPT !.pc = IF stopping THEN "returned" ELSE "fetch"]

\* a poller task runs for the first time
PollerStart(k) ==
  /\ poller[k].pc = "new"
  /\ k \notin cancelReq
  /\ poller' = [poller EXCEPT ![k] = PollLoopTop(k)]
  /\ UNCHANGED <<tasks, stopping, cancelReq, stop, fmBatch, fmRows,
                 repoLockVars, fmSnaps, cache, published, cacheRead>>

\* the poller with ingest_trade or ingest_book begun for fetched[i]:
\* normalize, then the call of the repo
BeginIngest(p, k, list, i) ==
  [p EXCEPT !.pc = "insert", !.fetched = list, !.idx = i,
            !.out = IF k = "trades"
                    THEN normalize_trade(list[i], Source)
                    ELSE normalize_book(list[i], Source),
            !.persisted = FALSE, !.cache = "no", !.published = FALSE,
            !.result = "running"]

\* _poll_trades: to_thread(connector.get_trades) returns or raises
TradesFetched ==
  /\ poller["trades"].pc = "fetch"
  /\ "trades" \notin cancelReq
  /\ poller["trades"].fetches < MaxFetches
  /\ \E ok \in BOOLEAN, list \in TradeFetches :
       \E p \in {[NoPoller EXCEPT !.fetches = poller["trades"].fetches + 1]} :
         poller' = [poller EXCEPT !["trades"] =
                      IF ~ok
                      THEN [p EXCEPT !.pc = "errsleep"]
                      ELSE IF list = << >>
                      THEN [p EXCEPT !.pc = "sleep"]
                      ELSE BeginIngest(p, "trades", list, 1)]
  /\ UNCHANGED <<tasks, stopping, cancelReq, stop, fmBatch, fmRows,
                 repoLockVars, fmSnaps, cache, published, cacheRead>>

\* _poll_books: to_thread(connector.get_orderbook) returns or raises
BooksFetched ==
  /\ poller["books"].pc = "fetch"
  /\ "books" \notin cancelReq
  /\ poller["books"].fetches < MaxFetches
  /\ \E ok \in BOOLEAN, book \in BookFetches :
       \E p \in {[NoPoller EXCEPT !.fetches = poller["books"].fetches + 1]} :
         poller' = [poller EXCEPT !["books"] =
                      IF ~ok
                      THEN [p EXCEPT !.pc = "errsleep"]
                      ELSE BeginIngest(p, "books", <<book>>, 1)]
  /\ UNCHANGED <<tasks, stopping, cancelReq, stop, fmBatch, fmRows,
                 repoLockVars, fmSnaps, cache, published, cacheRead>>

\* Repo.insert_trade raises: float(None) for a trade without price or size
InsertTradeRaises(out) == out.price = None \/ out.size = None

\* async with self._lock: acquire returns at once when the lock is free and
\* no task waits for it
AcquiresNow == fmLock = "free" /\ fmWaiters = << >>

\* async with self._lock: the lock was released and the task is the first
\* of its waiters
Woken(t) == fmLock = "free" /\ fmWaiters # << >> /\ Head(fmWaiters) = t

\* insert_trade with the lock taken: the trade is appended, and a batch
\* that reaches batch_size is copied and cleared by _flush_locked, which
\* waits for its commit with the lock held
InsertTradeLocked ==
  \E b \in {Append(fmBatch, poller["trades"].out.trade_id)} :
    IF Len(b) >= BatchSize
    THEN /\ fmFlush' = b
         /\ fmBatch' = << >>
         /\ fmLock' = "trades"
         /\ poller' = [poller EXCEPT !["trades"].pc = "commit"]
    ELSE /\ fmBatch' = b
         /\ fmLock' = "free"
         /\ poller' = [poller EXCEPT !["trades"].pc = "publish",
                                      !["trades"].persisted = TRUE]
         /\ UNCHANGED fmFlush

\* ingest_trade: repo.insert_trade(out) raises, or comes to its lock and
\* takes it or waits for it
TradeInsert ==
  /\ poller["trades"].pc = "insert"
  /\ "trades" \notin cancelReq
  /\ IF InsertTradeRaises(poller["trades"].out)
     THEN /\ poller' = [poller EXCEPT !["trades"].pc = "errsleep",
                                      !["trades"].result = "raised"]
          /\ UNCHANGED <<fmBatch, fmLock, fmWaiters, fmFlush>>
     ELSE IF AcquiresNow
     THEN InsertTradeLocked /\ UNCHANGED fmWaiters
     ELSE /\ fmWaiters' = Append(fmWaiters, "trades")
          /\ poller' = [poller EXCEPT !["trades"].pc = "lockwait"]
          /\ UNCHANGED <<fmBatch, fmLock, fmFlush>>
  /\ UNCHANGED <<tasks, stopping, cancelReq, stop, fmRows, flusher, fmSnaps,
                 cache, published, cacheRead>>

\* insert_trade: the wait for the lock is over
TradeLockAcquired ==
  /\ poller["trades"].pc = "lockwait"
  /\ "trades" \notin cancelReq
  /\ Woken("trades")
  /\ fmWaiters' = Tail(fmWaiters)
  /\ InsertTradeLocked
  /\ UNCHANGED <<tasks, stopping, cancelReq, stop, fmRows, flusher, fmSnaps,
                 cache, published, cacheRead>>

\* while not self._shutdown.is_set(): the next sleep of the flusher, or
\* its return
RunLoopTop(shutdown) == IF shutdown THEN "exited" ELSE "sleep"

\* Repo._shutdown is set
ShutdownSet == stop.pc \in {"worker", "commit", "done"}

\* _flush_locked: the commit of to_flush returns; the lock is released and
\* its holder goes on
FlushCommitted ==
  /\ fmLock # "free"
  /\ fmLock \notin cancelReq
  /\ fmRows' = fmRows \o fmFlush
  /\ fmFlush' = << >>
  /\ fmLock' = "free"
  /\ poller' = IF fmLock = "trades"
               THEN [poller EXCEPT !["trades"].pc = "publish",
                                   !["trades"].persisted = TRUE]
               ELSE poller
  /\ flusher' = IF fmLock = "flusher" THEN RunLoopTop(ShutdownSet)
                ELSE flusher
  /\ stop' = IF fmLock = "shutdown" THEN [pc |-> "done", i |-> 0] ELSE stop
  /\ UNCHANGED <<tasks, stopping, cancelReq, fmBatch, fmWaiters, fmSnaps,
                 cache, published, cacheRead>>

\* the poller after ingest_trade returned for fetched[idx]: the next trade
\* of the list, or the sleep after the loop
AfterIngest(p) ==
  IF p.idx < Len(p.fetched)
  THEN BeginIngest(p, "trades", p.fetched, p.idx + 1)
  ELSE [p EXCEPT !.pc = "sleep", !.result = "returned"]

\* ingest_trade: publisher.publish(out), and the return to the loop
TradePublish ==
  /\ poller["trades"].pc = "publish"
  /\ "trades" \notin cancelReq
  /\ published' = published \cup
                    {[type |-> "trade", id |-> poller["trades"].out.trade_id]}
  /\ poller' = [poller EXCEPT !["trades"] =
                  AfterIngest([poller["trades"] EXCEPT
                                 !.published = TRUE,
                                 !.ingested = @ \cup {poller["trades"].idx}])]
  /\ UNCHANGED <<tasks, stopping, cancelReq, stop, fmBatch, fmRows,
                 repoLockVars, fmSnaps, cache, cacheRead>>

\* the bodies of the requests POST /api/v1/binance/depth: a delta that
\* follows the snapshot of id 1, and one that no snapshot is older than
DepthPayloads ==
  { [symbol |-> "BTC/USDT", U |-> 2, u |-> 2, b |-> << <<1, 2>> >>,
     a |-> << >>],
    [instrument |-> "BTC/USDT", U |-> 1, u |-> 1, b |-> << >>, a |-> << >>] }

\* payload.get("instrument") or payload.get("symbol")
DepthSymbol(payload) ==
  OrS(GetS(payload, "instrument"), GetS(payload, "symbol"))

\* the delta post_binance_depth makes of the body
DepthDelta(payload) ==
  [U |-> GetN(payload, "U"), u |-> GetN(payload, "u"),
   b |-> payload.b, a |-> payload.a]

\* what post_binance_depth hands to ingest_book: the symbol of the request
\* and the sequence of the connector's book
DepthBook(symbol, book) == [symbol |-> symbol, nonce |-> book.sequence]

\* POST /api/v1/binance/depth: process_depth_delta with the delta of the
\* body, get_book, and the call of ingest_book, which normalizes and sends
\* the SELECT of insert_snapshot
PostDepth ==
  /\ poller["http"].pc = "none"
  /\ \E payload \in DepthPayloads, s1 \in Snapshots, s2 \in Snapshots :
       \E sym \in {DepthSymbol(payload)} :
         /\ Observe(sym, DepthDelta(payload), <<s1, s2>>)
         /\ book_out' = GetBook(state', sym)
         /\ poller' = [poller EXCEPT !["http"] =
                         BeginIngest(NoPoller, "http",
                                     <<DepthBook(sym, book_out')>>, 1)]
  /\ UNCHANGED <<tasks, stopping, cancelReq, stop, fmBatch, fmRows,
                 repoLockVars, fmSnaps, cache, published, cacheRead>>

\* where an exception of ingest_book takes its caller: the poller to the
\* sleep of its except clause, the handler out of post_binance_depth
Raised(t) == IF t = "http" THEN "raised" ELSE "errsleep"

\* the row insert_snapshot writes for a normalized book
SnapRow(out) ==
  [source |-> out.source, instrument |-> out.instrument,
   sequence |-> out.sequence, data |-> 0]

\* insert_snapshot: the SELECT of the row of (source, instrument) returns
\* or raises
BookSelect(t) ==
  /\ poller[t].pc = "insert"
  /\ t \notin cancelReq
  /\ \E ok \in BOOLEAN :
       poller' = [poller EXCEPT ![t] =
                    IF ok
                    THEN [@ EXCEPT !.pc = "snapcommit",
                                   !.existing =
                                      Loaded(fmSnaps,
                                        SelectFirst(fmSnaps,
                                                    poller[t].out.source,
                                                    poller[t].out.instrument))]
                    ELSE [@ EXCEPT !.pc = Raised(t), !.result = "raised"]]
  /\ UNCHANGED <<tasks, stopping, cancelReq, stop, fmBatch, fmRows,
                 repoLockVars, fmSnaps, cache, published, cacheRead>>

\* ingest_book: the commit of insert_snapshot returns or raises; then the
\* cache write starts when the instrument is truthy
BookInsert(t) ==
  /\ poller[t].pc = "snapcommit"
  /\ t \notin cancelReq
  /\ \E ok \in BOOLEAN :
       IF ok
       THEN /\ fmSnaps' = Upsert(fmSnaps, poller[t].existing,
                                 SnapRow(poller[t].out))
            /\ poller' = [poller EXCEPT
                            ![t].persisted = TRUE,
                            ![t].pc =
                               IF poller[t].out.instrument \notin {NoneStr, ""}
                               THEN "cache" ELSE "publish"]
       ELSE /\ poller' = [poller EXCEPT ![t].pc = Raised(t),
                                        ![t].result = "raised"]
            /\ UNCHANGED fmSnaps
  /\ UNCHANGED <<tasks, stopping, cancelReq, stop, fmBatch, fmRows,
                 repoLockVars, cache, published, cacheRead>>

\* variant: a failed cache write ends ingest_book with its exception
AfterCacheWriteRaise(ok) == IF ok THEN "publish" ELSE "raise"

\* where ingest_book goes on after set_snapshot returned or raised:
\* try: ... except Exception: pass
AfterCacheWrite(ok) == "publish"

\* ingest_book: set_snapshot(instrument, out) returns or raises
BookCache(t) ==
  /\ poller[t].pc = "cache"
  /\ t \notin cancelReq
  /\ \E ok \in BOOLEAN :
       /\ cache' = IF ok
                   THEN With(cache, poller[t].out.instrument,
                             poller[t].out.sequence)
                   ELSE cache
       /\ \E next \in {AfterCacheWrite(ok)} :
            poller' = [poller EXCEPT
                         ![t].cache = IF ok THEN "ok" ELSE "failed",
                         ![t].pc = IF next = "publish" THEN next
                                   ELSE Raised(t),
                         ![t].result =
                            IF next = "publish" THEN @ ELSE "raised"]
  /\ UNCHANGED <<tasks, stopping, cancelReq, stop, fmBatch, fmRows,
                 repoLockVars, fmSnaps, published, cacheRead>>

\* ingest_book: publisher.publish(out), and the return to the loop of the
\* poller or to post_binance_depth, which returns
BookPublish(t) ==
  /\ poller[t].pc = "publish"
  /\ t \notin cancelReq
  /\ published' = published \cup
                    {[type |-> "book", id |-> poller[t].out.instrument]}
  /\ poller' = [poller EXCEPT ![t].published = TRUE,
                               ![t].ingested = {1},
                               ![t].pc = IF t = "http" THEN "returned"
                                         ELSE "sleep",
                               ![t].result = "returned"]
  /\ UNCHANGED <<tasks, stopping, cancelReq, stop, fmBatch, fmRows,
                 repoLockVars, fmSnaps, cache, cacheRead>>

\* except Exception: await asyncio.sleep(interval) is over
ErrSleepDone(k) ==
  /\ poller[k].pc = "errsleep"
  /\ k \notin cancelReq
  /\ poller' = [poller EXCEPT ![k].pc = "sleep"]
  /\ UNCHANGED <<tasks, stopping, cancelReq, stop, fmBatch, fmRows,
                 repoLockVars, fmSnaps, cache, published, cacheRead>>

\* the sleep that ends an iteration is over
SleepDone(k) ==
  /\ poller[k].pc = "sleep"
  /\ k \notin cancelReq
  /\ poller' = [poller EXCEPT ![k] = PollLoopTop(k)]
  /\ UNCHANGED <<tasks, stopping, cancelReq, stop, fmBatch, fmRows,
                 repoLockVars, fmSnaps, cache, published, cacheRead>>

\* a cancelled task resumes: CancelledError is raised at its await and no
\* except Exception clause of the poller or of ingest catches it.  Raised
\* in the wait for the lock it takes the task off the waiters; raised in
\* the commit of _flush_locked it releases the lock.  What the task was
\* waiting for, the commit of the copied trades, the commit of the
\* snapshot or the SET of the cache, has taken effect when the database or
\* redis had finished it before the task resumed
PollerCancelled(k) ==
  /\ k \in cancelReq
  /\ cancelReq' = cancelReq \ {k}
  /\ poller' = [poller EXCEPT ![k].pc = "cancelled"]
  /\ fmWaiters' = SelectSeq(fmWaiters, LAMBDA t : t # k)
  /\ \E applied \in BOOLEAN :
       /\ IF poller[k].pc = "commit"
          THEN /\ fmRows' = IF applied THEN fmRows \o fmFlush ELSE fmRows
               /\ fmFlush' = << >>
               /\ fmLock' = "free"
          ELSE UNCHANGED <<fmRows, fmFlush, fmLock>>
       /\ fmSnaps' = IF poller[k].pc = "snapcommit" /\ applied
                     THEN Upsert(fmSnaps, poller[k].existing,
                                 SnapRow(poller[k].out))
                     ELSE fmSnaps
       /\ cache' = IF poller[k].pc = "cache" /\ applied
                   THEN With(cache, poller[k].out.instrument,
                             poller[k].out.sequence)
                   ELSE cache
  /\ UNCHANGED <<tasks, stopping, stop, fmBatch, flusher, published,
                 cacheRead>>

\* a task that is over
TaskDone(k) == poller[k].pc \in {"cancelled", "returned"}

\* stop_all after the await of tasks[i]: the next await, or repo.shutdown
StopNext(i) ==
  IF i < Len(tasks) THEN [pc |-> "await", i |-> i + 1]
  ELSE [pc |-> "shutdown", i |-> 0]

\* stop_all: _stopping.set(), t.cancel() for every task, up to the first
\* await
StopAllBegin ==
  /\ stop.pc = "idle"
  /\ stopping' = TRUE
  /\ cancelReq' = {k \in PollerNames : k \in {tasks[j] : j \in 1..Len(tasks)}
                                     /\ ~TaskDone(k)}
  /\ stop' = StopNext(0)
  /\ UNCHANGED <<poller, tasks, fmBatch, fmRows, repoLockVars, fmSnaps,
                 cache, published, cacheRead>>

\* stop_all: await t is over, with the CancelledError of a cancelled task
\* or normally
StopAllAwait ==
  /\ stop.pc = "await"
  /\ TaskDone(tasks[stop.i])
  /\ stop' = IF poller[tasks[stop.i]].pc = "cancelled"
                /\ ~Catches("CancelledError")
             THEN [pc |-> "raised", i |-> stop.i]
             ELSE StopNext(stop.i)
  /\ UNCHANGED <<poller, tasks, stopping, cancelReq, fmBatch, fmRows,
                 repoLockVars, fmSnaps, cache, published, cacheRead>>

\* stop_all: repo.shutdown() sets _shutdown and awaits the flusher
StopAllShutdown ==
  /\ stop.pc = "shutdown"
  /\ stop' = [pc |-> "worker", i |-> 0]
  /\ UNCHANGED <<poller, tasks, stopping, cancelReq, fmBatch, fmRows,
                 repoLockVars, fmSnaps, cache, published, cacheRead>>

\* _run or shutdown with the lock taken: a batch that is not empty is
\* copied and cleared by _flush_locked, which waits for its commit
FlushLocked(t) ==
  /\ fmBatch # << >>
  /\ fmFlush' = fmBatch
  /\ fmBatch' = << >>
  /\ fmLock' = t

\* Repo.shutdown: the flusher is over; the lock is taken and what is left
\* in the batch is flushed
StopAllFinalFlush ==
  /\ stop.pc = "worker"
  /\ flusher = "exited"
  /\ AcquiresNow
  /\ IF fmBatch # << >>
     THEN FlushLocked("shutdown") /\ stop' = [pc |-> "commit", i |-> 0]
     ELSE stop' = [pc |-> "done", i |-> 0]
          /\ UNCHANGED <<fmBatch, fmFlush, fmLock>>
  /\ UNCHANGED <<poller, tasks, stopping, cancelReq, fmRows, fmWaiters,
                 flusher, fmSnaps, cache, published, cacheRead>>

\* the task Repo._worker runs for the first time
RepoStart ==
  /\ flusher = "new"
  /\ flusher' = RunLoopTop(ShutdownSet)
  /\ UNCHANGED <<poller, tasks, stopping, cancelReq, stop, fmBatch, fmRows,
                 fmLock, fmWaiters, fmFlush, fmSnaps, cache, published,
                 cacheRead>>

\* _run with the lock taken: the flush begins, or there is nothing to
\* flush and the loop goes on
RunLocked ==
  IF fmBatch # << >>
  THEN FlushLocked("flusher") /\ flusher' = "commit"
  ELSE /\ flusher' = RunLoopTop(ShutdownSet)
       /\ fmLock' = "free"
       /\ UNCHANGED <<fmBatch, fmFlush>>

\* Repo._run: the flush interval is over; the flusher takes the lock or
\* waits for it
RepoTick ==
  /\ flusher = "sleep"
  /\ IF AcquiresNow
     THEN RunLocked /\ UNCHANGED fmWaiters
     ELSE /\ fmWaiters' = Append(fmWaiters, "flusher")
          /\ flusher' = "lockwait"
          /\ UNCHANGED <<fmBatch, fmLock, fmFlush>>
  /\ UNCHANGED <<poller, tasks, stopping, cancelReq, stop, fmRows, fmSnaps,
                 cache, published, cacheRead>>

\* Repo._run: the wait for the lock is over
RepoLockAcquired ==
  /\ flusher = "lockwait"
  /\ Woken("flusher")
  /\ fmWaiters' = Tail(fmWaiters)
  /\ RunLocked
  /\ UNCHANGED <<poller, tasks, stopping, cancelReq, stop, fmRows, fmSnaps,
                 cache, published, cacheRead>>

\* get_snapshot(instrument): the stored snapshot, None when there is none
\* or when the read fails
get_snapshot(c, instr, ok) ==
  [called |-> TRUE, failed |-> ~ok, raised |-> FALSE,
   value |-> IF ok /\ instr \in DOMAIN c THEN c[instr] ELSE None]

\* GET /api/v1/book reads the cache
CacheRead ==
  /\ \E instr \in {"BTC/USDT"}, ok \in BOOLEAN :
       cacheRead' = get_snapshot(cache, instr, ok)
  /\ UNCHANGED <<poller, tasks, stopping, cancelReq, stop, fmBatch, fmRows,
                 repoLockVars, fmSnaps, cache, published>>

\* the steps of start_all and stop_all
NextFmStop ==
  \/ StartAll /\ UNCHANGED notFm
  \/ \E k \in PollerNames : PollerCancelled(k) /\ UNCHANGED notFm
  \/ StopAllBegin /\ UNCHANGED notFm
  \/ StopAllAwait /\ UNCHANGED notFm

\* the two pollers, the repo and stop_all.  The trades path (the batch,
\* the lock, the flusher, table trades) and the path of the books (table
\* orderbook_snapshots, the cache) share no state but stop_all
NextFmPollers ==
  \/ NextFmStop
  \/ \E k \in PollerNames : PollerStart(k) /\ UNCHANGED notFm
  \/ TradesFetched /\ UNCHANGED notFm
  \/ BooksFetched /\ UNCHANGED notFm
  \/ TradeInsert /\ UNCHANGED notFm
  \/ TradeLockAcquired /\ UNCHANGED notFm
  \/ FlushCommitted /\ UNCHANGED notFm
  \/ TradePublish /\ UNCHANGED notFm
  \/ \E t \in {"books"} : BookSelect(t) /\ UNCHANGED notFm
  \/ \E t \in {"books"} : BookInsert(t) /\ UNCHANGED notFm
  \/ \E t \in {"books"} : BookCache(t) /\ UNCHANGED notFm
  \/ \E t \in {"books"} : BookPublish(t) /\ UNCHANGED notFm
  \/ \E k \in PollerNames : ErrSleepDone(k) /\ UNCHANGED notFm
  \/ \E k \in PollerNames : SleepDone(k) /\ UNCHANGED notFm
  \/ StopAllShutdown /\ UNCHANGED notFm
  \/ StopAllFinalFlush /\ UNCHANGED notFm
  \/ RepoStart /\ UNCHANGED notFm
  \/ RepoTick /\ UNCHANGED notFm
  \/ RepoLockAcquired /\ UNCHANGED notFm

\* the callers of ingest_book, the books poller and post_binance_depth,
\* the reader of the cache and stop_all, while the trades poller is not
\* scheduled
NextFmBooks ==
  \/ NextFmStop
  \/ \E k \in {"books"} : PollerStart(k) /\ UNCHANGED notFm
  \/ BooksFetched /\ UNCHANGED notFm
  \/ PostDepth /\ UNCHANGED notFmBook
  \/ \E t \in BookTasks : BookSelect(t) /\ UNCHANGED notFm
  \/ \E t \in BookTasks : BookInsert(t) /\ UNCHANGED notFm
  \/ \E t \in BookTasks : BookCache(t) /\ UNCHANGED notFm
  \/ \E t \in BookTasks : BookPublish(t) /\ UNCHANGED notFm
  \/ \E k \in {"books"} : ErrSleepDone(k) /\ UNCHANGED notFm
  \/ \E k \in {"books"} : SleepDone(k) /\ UNCHANGED notFm
  \/ CacheRead /\ UNCHANGED notFm

\* every step of the feed manager, the repo and the two endpoints
NextFm == NextFmPollers \/ NextFmBooks

(***************************************************************************)
(* The normalizer called on payloads with any of their keys missing.       *)
(***************************************************************************)
\* the payload {k: v}, the empty payload when v is absent
Opt(k, v, absent) == IF v = absent THEN [x \in {} |-> absent] ELSE k :> v

RawTrades ==
  { Opt("symbol", s, NoneStr) @@ Opt("pair", p, NoneStr)
      @@ Opt("price", pr, None) @@ Opt("amount", a, None)
      @@ Opt("size", z, None) :
      s \in {NoneStr, "BTC/USDT", ""}, p \in {NoneStr, "BTC/USDT", ""},
      pr \in {None, 0, 1}, a \in {None, 0, 2}, z \in {None, 3} }

RawBooks ==
  { Opt("symbol", s, NoneStr) @@ Opt("instrument", i, NoneStr)
      @@ Opt("pair", p, NoneStr) @@ Opt("nonce", n, None) :
      s \in {NoneStr, "BTC/USDT", ""}, i \in {NoneStr, "BTC/USDT"},
      p \in {NoneStr, "BTC/USDT", ""}, n \in {None, 0, 1} }

NoNormCall ==
  [kind |-> "", raw |-> [x \in {} |-> None], out |-> NoOut, twice |-> FALSE,
   again |-> NoOut]

InitNz == normCall = NoNormCall

NormalizeTradeCall ==
  \E raw \in RawTrades :
    normCall' = [kind |-> "trade", raw |-> raw,
                 out |-> normalize_trade(raw, Source), twice |-> FALSE,
                 again |-> NoOut]

NormalizeBookCall ==
  \E raw \in RawBooks :
    normCall' = [kind |-> "book", raw |-> raw,
                 out |-> normalize_book(raw, Source), twice |-> FALSE,
                 again |-> NoOut]

\* normalize_trade applied to the record it returned
RenormalizeTradeCall ==
  /\ normCall.kind = "trade"
  /\ ~normCall.twice
  /\ normCall' = [normCall EXCEPT !.twice = TRUE,
                                  !.again = normalize_trade(normCall.out, Source)]

\* normalize_book applied to the record it returned
RenormalizeBookCall ==
  /\ normCall.kind = "book"
  /\ ~normCall.twice
  /\ normCall' = [normCall EXCEPT !.twice = TRUE,
                                  !.again = normalize_book(normCall.out, Source)]

NextNz ==
  \/ NormalizeTradeCall /\ UNCHANGED notNz
  \/ NormalizeBookCall /\ UNCHANGED notNz
  \/ RenormalizeTradeCall /\ UNCHANGED notNz
  \/ RenormalizeBookCall /\ UNCHANGED notNz

(***************************************************************************)
(* The two polling loops and their delays, in seconds.  fetch_loop         *)
(* (main.py) runs rounds for one exchange with one symbol: a task per      *)
(* stream, gather, sleep(interval); a task whose fetch fails sleeps its    *)
(* back-off before it ends.  The pollers of FeedManager run one iteration  *)
(* after the other.  A fetch and the ingest of its result take no time.    *)
(***************************************************************************)
\* rounds of fetch_loop
MaxRounds == 3

\* iterations of each FeedManager poller
MaxIterations == 3

REFRESH_INTERVAL == 5

poll_trades_interval == 2

poll_books_interval == 5

\* the streams of the symbol: key = (stream, symbol)
Streams == {"ticker", "book", "trades"}

\* the exceptions a fetch raises, one per except clause
Excs == {"RateLimitExceeded", "NetworkError", "ExchangeError", "Exception"}

\* the clause that calls _apply_backoff(key, base_rand=True)
BaseRand(exc) ==
  exc \in {"RateLimitExceeded", "DDoSProtection", "ExchangeNotAvailable"}

\* values random.uniform(3.0, 10.0) may return
UniformSamples == {3, 10}

Min(a, b) == IF a <= b THEN a ELSE b

RECURSIVE SetMax(_)
SetMax(S) ==
  IF S = {} THEN 0
  ELSE LET x == CHOOSE y \in S : TRUE
       IN IF SetMax(S \ {x}) > x THEN SetMax(S \ {x}) ELSE x

\* _apply_backoff: the new back-off of a key whose back-off was prev, with
\* u the value drawn by random.uniform
apply_backoff(prev, base_rand, u) ==
  IF prev = 0 THEN (IF base_rand THEN u ELSE 3) ELSE Min(prev * 2, 60)

NoFlObs ==
  [fetches |-> 0, start |-> 0, prevStart |-> 0, prevOk |-> FALSE,
   run |-> 0, rand |-> FALSE, delay |-> 0]

NoPollObs ==
  [fetches |-> 0, start |-> 0, prevStart |-> 0, prevOk |-> FALSE,
   run |-> 0, delay |-> 0, next |-> 0]

InitPoll ==
  /\ failure_counts = [k \in Streams |-> 0]
  /\ backoffs = [k \in Streams |-> 0]
  /\ flRound = [n |-> 0, phase |-> "sleep", next |-> 0]
  /\ flTask = [k \in Streams |-> [pc |-> "none", until |-> 0]]
  /\ flObs = [k \in Streams |-> NoFlObs]
  /\ pollObs = [p \in PollerNames |-> NoPollObs]

\* fetch_loop: the sleep is over, a task per stream is created and gather
\* is awaited
RoundStart ==
  /\ flRound.phase = "sleep"
  /\ flRound.n < MaxRounds
  /\ flRound' = [flRound EXCEPT !.n = @ + 1, !.phase = "gather"]
  /\ flTask' = [k \in Streams |-> [pc |-> "fetch", until |-> flRound.next]]
  /\ flObs' = [k \in Streams |->
                 [flObs[k] EXCEPT !.fetches = @ + 1,
                                  !.start = flRound.next,
                                  !.prevStart = flObs[k].start,
                                  !.prevOk = flObs[k].fetches > 0
                                             /\ flObs[k].run = 0]]
  /\ UNCHANGED <<failure_counts, backoffs, pollObs>>

\* _fetch_ticker, _fetch_book, _fetch_trades: the fetch returned, _reset
FetchOk(k) ==
  /\ flTask[k].pc = "fetch"
  /\ IF failure_counts[k] # 0
     THEN /\ failure_counts' = [failure_counts EXCEPT ![k] = 0]
          /\ backoffs' = [backoffs EXCEPT ![k] = 0]
     ELSE UNCHANGED <<failure_counts, backoffs>>
  /\ flTask' = [flTask EXCEPT ![k].pc = "done"]
  /\ flObs' = [flObs EXCEPT ![k].run = 0, ![k].rand = FALSE,
                            ![k].delay = 0]
  /\ UNCHANGED <<flRound, pollObs>>

\* _fetch_ticker, _fetch_book, _fetch_trades: the fetch raised, _inc_fail,
\* then the task sleeps the back-off of _apply_backoff
FetchFail(k) ==
  /\ flTask[k].pc = "fetch"
  /\ \E exc \in Excs, u \in UniformSamples :
     \E nxt \in {apply_backoff(backoffs[k], BaseRand(exc), u)} :
       /\ failure_counts' = [failure_counts EXCEPT ![k] = @ + 1]
       /\ backoffs' = [backoffs EXCEPT ![k] = nxt]
       /\ flTask' = [flTask EXCEPT ![k] =
                       [pc |-> "done", until |-> flTask[k].until + nxt]]
       /\ flObs' = [flObs EXCEPT ![k].run = @ + 1,
                                 ![k].rand = BaseRand(exc),
                                 ![k].delay = nxt]
  /\ UNCHANGED <<flRound, pollObs>>

\* fetch_loop: gather returns when the last task is over, then
\* sleep(interval)
GatherDone ==
  /\ flRound.phase = "gather"
  /\ \A k \in Streams : flTask[k].pc = "done"
  /\ flRound' = [flRound EXCEPT
                   !.phase = "sleep",
                   !.next = SetMax({flTask[k].until : k \in Streams})
                              + REFRESH_INTERVAL]
  /\ UNCHANGED <<failure_counts, backoffs, flTask, flObs, pollObs>>

\* self.poll_trades_interval, self.poll_books_interval
PollInterval(p) ==
  IF p = "trades" THEN poll_trades_interval ELSE poll_books_interval

\* the sleeps of one iteration of _poll_trades or _poll_books: the one of
\* the except clause when the try block raised, and the one that ends the
\* iteration
IterationSleeps(p, ok) ==
  (IF ok THEN 0 ELSE PollInterval(p)) + PollInterval(p)

\* _poll_trades, _poll_books: one iteration of the while loop
PollIteration(p) ==
  /\ pollObs[p].fetches < MaxIterations
  /\ \E ok \in BOOLEAN :
       pollObs' = [pollObs EXCEPT ![p] =
                     [fetches |-> @.fetches + 1,
                      start |-> @.next,
                      prevStart |-> @.start,
                      prevOk |-> @.fetches > 0 /\ @.run = 0,
                      run |-> IF ok THEN 0 ELSE @.run + 1,
                      delay |-> IF ok THEN 0 ELSE IterationSleeps(p, ok),
                      next |-> @.next + IterationSleeps(p, ok)]]
  /\ UNCHANGED <<failure_counts, backoffs, flRound, flTask, flObs>>

NextFetchLoop ==
  \/ RoundStart /\ UNCHANGED notPoll
  \/ \E k \in Streams : FetchOk(k) /\ UNCHANGED notPoll
  \/ \E k \in Streams : FetchFail(k) /\ UNCHANGED notPoll
  \/ GatherDone /\ UNCHANGED notPoll

NextPollers ==
  \E p \in PollerNames : PollIteration(p) /\ UNCHANGED notPoll

(***************************************************************************)
(* The replay engine (services/replay_service.py): create_session and      *)
(* stream_replay over the tables trades and orderbook_snapshots.  Times    *)
(* are milliseconds within one minute; of an ISO-8601 string only the      *)
(* seconds and the fraction are kept, as character codes, since the part   *)
(* before them is the same for all rows.                                   *)
(***************************************************************************)
ReplayInstruments == {"BTC/USDT", "ETH/USDT"}

\* the ts column of the stored rows
Stamps == {0, 500, 1000}

ReplayRows == [instrument : ReplayInstruments, ts : Stamps]

\* the contents of a table, in rowid order
ReplayTables ==
  {<< >>} \cup {<<a>> : a \in ReplayRows}
          \cup {<<a, b>> : a \in ReplayRows, b \in ReplayRows}

\* the speed of a replay request as <<numerator, denominator>>: start_replay
\* takes any float, negative ones too
Speeds == {<<0, 1>>, <<1, 2>>, <<1, 1>>, <<2, 1>>, <<0 - 1, 1>>}

\* the character "0" and the character "."
Char0 == 48

CharDot == 46

\* the two digits of a number below 100
Digits2(n) == <<Char0 + (n \div 10), Char0 + (n % 10)>>

\* datetime.isoformat(), from the seconds on: SS, and .ffffff only when the
\* microseconds are not 0
isoformat(ts) ==
  IF ts % 1000 = 0 THEN Digits2(ts \div 1000)
  ELSE Digits2(ts \div 1000)
         \o <<CharDot, Char0 + ((ts % 1000) \div 100)>>
         \o Digits2(ts % 100) \o <<Char0, Char0, Char0>>

\* datetime.fromisoformat, on the strings above
fromisoformat(s) ==
  (10 * (s[1] - Char0) + (s[2] - Char0)) * 1000
    + (IF Len(s) > 2
       THEN 100 * (s[4] - Char0) + 10 * (s[5] - Char0) + (s[6] - Char0)
       ELSE 0)

\* a < b on strings: by the first character that differs, a prefix first
RECURSIVE StrLess(_, _)
StrLess(a, b) ==
  IF b = << >> THEN FALSE
  ELSE IF a = << >> THEN TRUE
  ELSE IF Head(a) # Head(b) THEN Head(a) < Head(b)
  ELSE StrLess(Tail(a), Tail(b))

\* the order of a sort: rows by their ts column, events by their timestamp
\* string
Less(by, a, b) ==
  IF by = "ts" THEN a.ts < b.ts ELSE StrLess(a.timestamp, b.timestamp)

\* a stable sort: x goes behind the elements that are not greater
RECURSIVE InsertSorted(_, _, _)
InsertSorted(sorted, x, by) ==
  IF sorted = << >> THEN <<x>>
  ELSE IF Less(by, x, Head(sorted)) THEN <<x>> \o sorted
  ELSE <<Head(sorted)>> \o InsertSorted(Tail(sorted), x, by)

\* ORDER BY ts with ties in rowid order, and list.sort(key=timestamp)
RECURSIVE StableSort(_, _)
StableSort(seq, by) ==
  IF seq = << >> THEN << >>
  ELSE InsertSorted(StableSort(SubSeq(seq, 1, Len(seq) - 1), by),
                    seq[Len(seq)], by)

\* the rows of a table with their rowid
WithIds(table) ==
  [i \in 1..Len(table) |->
     [id |-> i, instrument |-> table[i].instrument, ts |-> table[i].ts]]

\* select(...).where(instrument == ..., ts >= start, ts <= end)
\*   .order_by(ts); rows of equal ts come in rowid order
Query(table, instrument, start, end) ==
  StableSort(SelectSeq(WithIds(table),
                       LAMBDA r : /\ r.instrument = instrument
                                  /\ r.ts >= start
                                  /\ r.ts <= end),
             "ts")

\* the event built from a row
Event(type, r) ==
  [type |-> type, instrument |-> r.instrument, id |-> r.id,
   timestamp |-> isoformat(r.ts)]

\* variant: the book events come first
EventsOfBooksFirst(trades, snaps) ==
  [i \in 1..Len(snaps) |-> Event("book", snaps[i])]
    \o [i \in 1..Len(trades) |-> Event("trade", trades[i])]

\* events before the sort: the trade events, then the book events
EventsOf(trades, snaps) ==
  [i \in 1..Len(trades) |-> Event("trade", trades[i])]
    \o [i \in 1..Len(snaps) |-> Event("book", snaps[i])]

\* create_session: float(speed) if speed else 1.0
SessionSpeed(speed) == IF speed[1] = 0 THEN <<1, 1>> ELSE speed

\* wait = delta / (speed if speed else 1.0), in milliseconds
Wait(delta, speed) ==
  IF speed[1] = 0 THEN delta ELSE (delta * speed[2]) \div speed[1]

NoSession == [instrument |-> "", from_ts |-> 0, to_ts |-> 0, speed |-> <<1, 1>>]

\* commits of writers during the reads of one stream
MaxWrites == 1

NoTables == [trades |-> << >>, snaps |-> << >>]

InitReplay ==
  /\ rpPc = "idle"
  /\ rpDb = NoTables
  /\ rpSess = NoSession
  /\ rpSeen = NoTables
  /\ rpWrites = 0
  /\ rpEvents = << >>
  /\ rpPrev = None
  /\ rpSent = << >>
  /\ rpSleeps = << >>

\* POST /api/v1/replay creates the session; /ws/replay/{sid} calls
\* stream_replay, which sends its first query
StartReplay ==
  /\ rpPc = "idle"
  /\ \E trades \in ReplayTables, snaps \in ReplayTables,
        from_ts \in {0, 500}, to_ts \in {500, 1000}, speed \in Speeds :
       /\ rpDb' = [trades |-> trades, snaps |-> snaps]
       /\ rpSess' = [instrument |-> "BTC/USDT", from_ts |-> from_ts,
                     to_ts |-> to_ts, speed |-> SessionSpeed(speed)]
  /\ rpPc' = "trades"
  /\ UNCHANGED <<rpSeen, rpWrites, rpEvents, rpPrev, rpSent, rpSleeps>>

\* Repo._flush_locked commits a trade: a new row of table trades
TradeCommitted(db, row) == [db EXCEPT !.trades = Append(@, row)]

\* Repo.insert_snapshot commits: the row of its source and instrument gets
\* the new ts, and is a new row when the source had none
SnapshotCommitted(db, i, row) ==
  IF i > Len(db.snaps) THEN [db EXCEPT !.snaps = Append(@, row)]
  ELSE [db EXCEPT !.snaps[i].ts = row.ts]

\* the row a writer commits while a stream reads
Written == [instrument |-> "BTC/USDT", ts |-> 500]

\* the tables after a writer committed one trade or one snapshot
Commits(db) ==
  {TradeCommitted(db, Written)}
    \cup {SnapshotCommitted(db, i, Written) : i \in 1..(Len(db.snaps) + 1)}

\* a writer commits after the first query of stream_replay was answered
\* and before the second is; a commit before the first query is one of
\* the tables the stream starts with, one after the second is never read
ReplayDbWrite ==
  /\ rpPc = "snaps"
  /\ rpWrites < MaxWrites
  /\ rpWrites' = rpWrites + 1
  /\ \E db \in Commits(rpDb) : rpDb' = db
  /\ UNCHANGED <<rpPc, rpSess, rpSeen, rpEvents, rpPrev, rpSent, rpSleeps>>

\* stream_replay: the query of the trades returns or raises
ReplayQueryTrades ==
  /\ rpPc = "trades"
  /\ \E ok \in BOOLEAN :
       IF ok
       THEN /\ rpSeen' = [rpSeen EXCEPT !.trades = rpDb.trades]
            /\ rpPc' = "snaps"
       ELSE /\ rpPc' = "failed"
            /\ UNCHANGED rpSeen
  /\ UNCHANGED <<rpDb, rpSess, rpWrites, rpEvents, rpPrev, rpSent, rpSleeps>>

\* the events of stream_replay in the order of its loop, from the tables
\* as its queries read them
SortedEvents(seen, sess) ==
  StableSort(EventsOf(Query(seen.trades, sess.instrument, sess.from_ts,
                            sess.to_ts),
                      Query(seen.snaps, sess.instrument, sess.from_ts,
                            sess.to_ts)),
             "timestamp")

\* stream_replay: the query of the snapshots returns or raises; then the
\* events are built and sorted
ReplayQuerySnaps ==
  /\ rpPc = "snaps"
  /\ \E ok \in BOOLEAN :
       IF ok
       THEN \E seen \in {[rpSeen EXCEPT !.snaps = rpDb.snaps]} :
              /\ rpSeen' = seen
              /\ rpEvents' = SortedEvents(seen, rpSess)
              /\ rpPc' = IF SortedEvents(seen, rpSess) = << >>
                         THEN "done" ELSE "loop"
       ELSE /\ rpPc' = "failed"
            /\ UNCHANGED <<rpSeen, rpEvents>>
  /\ UNCHANGED <<rpDb, rpSess, rpWrites, rpPrev, rpSent, rpSleeps>>

\* the wait before the event at the head of the remaining events
WaitBefore(events, prev, speed) ==
  IF prev = None THEN 0
  ELSE Wait(fromisoformat(Head(events).timestamp) - prev, speed)

NextWait == WaitBefore(rpEvents, rpPrev, rpSess.speed)

\* stream_replay: asyncio.sleep(wait) when wait > 0
ReplaySleep ==
  /\ rpPc = "loop"
  /\ NextWait > 0
  /\ rpSleeps' = Append(rpSleeps, NextWait)
  /\ rpPc' = "slept"
  /\ UNCHANGED <<rpDb, rpSess, rpSeen, rpWrites, rpEvents, rpPrev, rpSent>>

\* stream_replay: ws.send_json(e) returns or raises, prev = cur
ReplaySend ==
  /\ \/ rpPc = "slept"
     \/ rpPc = "loop" /\ NextWait <= 0
  /\ \E ok \in BOOLEAN :
       IF ok
       THEN /\ rpSent' = Append(rpSent, Head(rpEvents))
            /\ rpSleeps' = IF rpPc = "slept" THEN rpSleeps
                           ELSE Append(rpSleeps, 0)
            /\ rpPrev' = fromisoformat(Head(rpEvents).timestamp)
            /\ rpEvents' = Tail(rpEvents)
            /\ rpPc' = IF Tail(rpEvents) = << >> THEN "done" ELSE "loop"
       ELSE /\ rpPc' = "failed"
            /\ UNCHANGED <<rpSent, rpSleeps, rpPrev, rpEvents>>
  /\ UNCHANGED <<rpDb, rpSess, rpSeen, rpWrites>>

NextReplay ==
  \/ StartReplay /\ UNCHANGED notReplay
  \/ ReplayDbWrite /\ UNCHANGED notReplay
  \/ ReplayQueryTrades /\ UNCHANGED notReplay
  \/ ReplayQuerySnaps /\ UNCHANGED notReplay
  \/ ReplaySleep /\ UNCHANGED notReplay
  \/ ReplaySend /\ UNCHANGED notReplay

(***************************************************************************)
(* Replay sessions (main.py start_replay and ws_replay, replay_service.py   *)
(* create_session, get_session, remove_session).  Every connection to      *)
(* /ws/replay/{sid} is handled by a task of its own, so the handlers of    *)
(* two connections run side by side, also on one sid.                      *)
(***************************************************************************)
MaxSessions == 2

MaxConns == 2

Conns == 1..MaxConns

\* the "speed" of a request body: absent, null, or a number
RequestSpeeds ==
  {[given |-> "absent", value |-> <<1, 1>>],
   [given |-> "null", value |-> <<1, 1>>]}
    \cup {[given |-> "number", value |-> v] :
            v \in {<<0, 1>>, <<2, 1>>, <<0 - 1, 1>>}}

\* start_replay: float(payload.get("speed", 1.0)) raises on null
FloatRaises(req) == req.given = "null"

\* start_replay: float(payload.get("speed", 1.0))
PayloadSpeed(req) == IF req.given = "absent" THEN <<1, 1>> ELSE req.value

SessTrades == <<[instrument |-> "BTC/USDT", ts |-> 0]>>

SessSnaps == <<[instrument |-> "BTC/USDT", ts |-> 0]>>

NoSessions == [s \in {} |-> NoSession]

\* a connection that was not made yet
NoConn ==
  [pc |-> "none", sid |-> 0, sess |-> NoSession, seen |-> NoTables,
   events |-> << >>, prev |-> None, sent |-> << >>, sleeps |-> << >>]

InitSess ==
  /\ sessions = NoSessions
  /\ nextSid = 1
  /\ sessReq = [s \in {} |-> [given |-> "absent", value |-> <<1, 1>>]]
  /\ ws = [h \in Conns |-> NoConn]
  /\ wsLog = << >>
  /\ ssDb = [trades |-> SessTrades, snaps |-> SessSnaps]
  /\ ssWrites = 0
  /\ ended = {}

\* sessions[sid] = {...} under a fresh uuid
create_session(ss, sid, instrument, from_ts, to_ts, speed) ==
  With(ss, sid, [instrument |-> instrument, from_ts |-> from_ts,
                 to_ts |-> to_ts, speed |-> SessionSpeed(speed)])

\* sessions.get(sid)
get_session(ss, sid) == IF sid \in DOMAIN ss THEN ss[sid] ELSE NoSession

\* sessions.pop(sid, None)
remove_session(ss, sid) == Without(ss, sid)

\* POST /api/v1/replay
StartReplayRequest ==
  /\ nextSid <= MaxSessions
  /\ \E req \in RequestSpeeds, to_ts \in {1000} :
       IF FloatRaises(req)
       THEN UNCHANGED <<sessions, nextSid, sessReq>>
       ELSE /\ sessions' = create_session(sessions, nextSid, "BTC/USDT", 0,
                                          to_ts, PayloadSpeed(req))
            /\ sessReq' = With(sessReq, nextSid, req)
            /\ nextSid' = nextSid + 1
  /\ UNCHANGED <<ws, wsLog, ssDb, ssWrites, ended>>

\* ws_replay: accept has returned, get_session.  For an unknown sid the
\* send of the error event invalid_session starts; for a known sid
\* stream_replay is called, which sends its first query
WsConnect(h) ==
  /\ ws[h].pc = "none"
  /\ \E sid \in 1..MaxSessions :
       ws' = [ws EXCEPT ![h] =
                [NoConn EXCEPT
                   !.pc = IF get_session(sessions, sid) # NoSession
                          THEN "trades" ELSE "invalid",
                   !.sid = sid,
                   !.sess = get_session(sessions, sid)]]
  /\ UNCHANGED <<sessions, nextSid, sessReq, wsLog, ssDb, ssWrites, ended>>

\* ws_replay: the send of invalid_session returns, and ws.close() starts,
\* or raises, and the handler is over with that exception
WsInvalidSession(h) ==
  /\ ws[h].pc = "invalid"
  /\ \E ok \in BOOLEAN :
       /\ wsLog' = IF ok
                    THEN Append(wsLog, <<ws[h].sid, "invalid_session">>)
                    ELSE wsLog
       /\ ws' = [ws EXCEPT ![h] =
                    IF ok THEN [@ EXCEPT !.pc = "closing"]
                    ELSE [NoConn EXCEPT !.pc = "closed"]]
  /\ UNCHANGED <<sessions, nextSid, sessReq, ssDb, ssWrites, ended>>

\* ws_replay: ws.close() after invalid_session is over; return
WsClose(h) ==
  /\ ws[h].pc = "closing"
  /\ ws' = [ws EXCEPT ![h] = [NoConn EXCEPT !.pc = "closed"]]
  /\ UNCHANGED <<sessions, nextSid, sessReq, wsLog, ssDb, ssWrites, ended>>

\* a writer commits a trade or a snapshot while a stream_replay waits for
\* one of its queries
SessDbWrite ==
  /\ \E h \in Conns : ws[h].pc \in {"trades", "snaps"}
  /\ ssWrites < MaxWrites
  /\ ssWrites' = ssWrites + 1
  /\ \E db \in Commits(ssDb) : ssDb' = db
  /\ UNCHANGED <<sessions, nextSid, sessReq, ws, wsLog, ended>>

\* stream_replay of a handler: the query of the trades returns or raises
WsQueryTrades(h) ==
  /\ ws[h].pc = "trades"
  /\ \E ok \in BOOLEAN :
       ws' = [ws EXCEPT ![h] =
                IF ok
                THEN [@ EXCEPT !.pc = "snaps", !.seen.trades = ssDb.trades]
                ELSE [@ EXCEPT !.pc = "queryfailed"]]
  /\ UNCHANGED <<sessions, nextSid, sessReq, wsLog, ssDb, ssWrites, ended>>

\* stream_replay of a handler: the query of the snapshots returns or
\* raises; then the events are built and sorted
WsQuerySnaps(h) ==
  /\ ws[h].pc = "snaps"
  /\ \E ok \in BOOLEAN :
       IF ok
       THEN \E seen \in {[ws[h].seen EXCEPT !.snaps = ssDb.snaps]} :
              \E events \in {SortedEvents(seen, ws[h].sess)} :
                ws' = [ws EXCEPT ![h].seen = seen,
                                 ![h].events = events,
                                 ![h].pc = IF events = << >> THEN "done"
                                           ELSE "loop"]
       ELSE ws' = [ws EXCEPT ![h].pc = "queryfailed"]
  /\ UNCHANGED <<sessions, nextSid, sessReq, wsLog, ssDb, ssWrites, ended>>

\* the wait of a handler's stream_replay before its next event
WsWait(c) == WaitBefore(c.events, c.prev, c.sess.speed)

\* stream_replay of a handler: asyncio.sleep(wait) when wait > 0
WsSleep(h) ==
  /\ ws[h].pc = "loop"
  /\ WsWait(ws[h]) > 0
  /\ ws' = [ws EXCEPT ![h].sleeps = Append(@, WsWait(ws[h])),
                      ![h].pc = "slept"]
  /\ UNCHANGED <<sessions, nextSid, sessReq, wsLog, ssDb, ssWrites, ended>>

\* stream_replay of a handler: ws.send_json(e) returns or raises,
\* prev = cur
WsSend(h) ==
  /\ \/ ws[h].pc = "slept"
     \/ ws[h].pc = "loop" /\ WsWait(ws[h]) <= 0
  /\ \E ok \in BOOLEAN :
       ws' = [ws EXCEPT ![h] =
                IF ok
                THEN [@ EXCEPT
                        !.sent = Append(@, Head(ws[h].events)),
                        !.sleeps = IF ws[h].pc = "slept" THEN @
                                   ELSE Append(@, 0),
                        !.prev = fromisoformat(Head(ws[h].events).timestamp),
                        !.events = Tail(@),
                        !.pc = IF Tail(ws[h].events) = << >> THEN "done"
                               ELSE "loop"]
                ELSE [@ EXCEPT !.pc = "sendfailed"]]
  /\ UNCHANGED <<sessions, nextSid, sessReq, wsLog, ssDb, ssWrites, ended>>

\* ws_replay: except Exception: the error event is sent, a failure of that
\* send is swallowed
WsExcept(h) ==
  /\ ws[h].pc \in {"queryfailed", "sendfailed"}
  /\ \E ok \in BOOLEAN :
       wsLog' = IF ok THEN Append(wsLog, <<ws[h].sid, "error">>) ELSE wsLog
  /\ ws' = [ws EXCEPT ![h].pc = IF @ = "queryfailed" THEN "queryhandled"
                                ELSE "sendhandled"]
  /\ UNCHANGED <<sessions, nextSid, sessReq, ssDb, ssWrites, ended>>

\* ws_replay: the handler is cancelled while it waits in stream_replay;
\* CancelledError passes except Exception
WsCancel(h) ==
  /\ ws[h].pc \in {"trades", "snaps", "loop", "slept"}
  /\ ws' = [ws EXCEPT ![h].pc = "cancelled"]
  /\ UNCHANGED <<sessions, nextSid, sessReq, wsLog, ssDb, ssWrites, ended>>

\* how the stream of a handler has ended, "" while it has not
Ending(c) ==
  CASE c.pc = "queryhandled" -> "query"
    [] c.pc = "sendhandled" -> "send"
    [] c.pc = "cancelled" -> "cancelled"
    [] c.pc = "done" -> "exhausted"
    [] OTHER -> ""

\* ws_replay: finally: remove_session(sid); the handler returns and the
\* locals of the handler and of stream_replay are gone
WsFinally(h) ==
  /\ Ending(ws[h]) # ""
  /\ sessions' = remove_session(sessions, ws[h].sid)
  /\ ended' = ended \cup
       {[conn |-> h, sid |-> ws[h].sid, how |-> Ending(ws[h]),
         tried |-> ws[h].pc \in {"queryhandled", "sendhandled"}]}
  /\ ws' = [ws EXCEPT ![h] = [NoConn EXCEPT !.pc = "closed"]]
  /\ UNCHANGED <<nextSid, sessReq, wsLog, ssDb, ssWrites>>

NextSess ==
  \/ StartReplayRequest /\ UNCHANGED notSess
  \/ SessDbWrite /\ UNCHANGED notSess
  \/ \E h \in Conns : WsConnect(h) /\ UNCHANGED notSess
  \/ \E h \in Conns : WsInvalidSession(h) /\ UNCHANGED notSess
  \/ \E h \in Conns : WsClose(h) /\ UNCHANGED notSess
  \/ \E h \in Conns : WsQueryTrades(h) /\ UNCHANGED notSess
  \/ \E h \in Conns : WsQuerySnaps(h) /\ UNCHANGED notSess
  \/ \E h \in Conns : WsSleep(h) /\ UNCHANGED notSess
  \/ \E h \in Conns : WsSend(h) /\ UNCHANGED notSess
  \/ \E h \in Conns : WsExcept(h) /\ UNCHANGED notSess
  \/ \E h \in Conns : WsCancel(h) /\ UNCHANGED notSess
  \/ \E h \in Conns : WsFinally(h) /\ UNCHANGED notSess

(***************************************************************************)
(* WebSocketPublisher.stop (publisher/websocket_pub.py) over the publisher *)
(* with one producer: task.cancel(), await task, _task = None.  A cancelled *)
(* task takes no further step of its own: CancelledError is thrown into    *)
(* it where it is suspended.                                               *)
(***************************************************************************)
InitStop ==
  /\ spc = "idle"
  /\ stopQueued = {}

\* variant: cancel() leaves the task as it is
TaskCancelIgnored(at) == at

\* task.cancel(): the task will be resumed with CancelledError
TaskCancel(at) == "cancelling"

\* stop(): nothing to do without a task; else cancel it and await it
StopBegin ==
  /\ spc = "idle"
  /\ IF dpc = "none"
     THEN /\ spc' = "returned"
          /\ UNCHANGED <<dpc, stopQueued>>
     ELSE /\ spc' = "awaiting"
          /\ dpc' = TaskCancel(dpc)
          /\ stopQueued' = {queue[i] : i \in 1..Len(queue)}
  /\ UNCHANGED <<idxVars, hs, queue, putters, ppc, pcur, evt, remaining,
                 to_remove, nextEv, evs, sentLog>>

\* _run resumes with CancelledError in queue.get or in send_json; neither
\* the except Exception around the send nor anything else catches it
RunCancelled ==
  /\ dpc = "cancelling"
  /\ ~Catches("CancelledError")
  /\ dpc' = "cancelled"
  /\ UNCHANGED <<idxVars, hs, queue, putters, ppc, pcur, evt, remaining,
                 to_remove, nextEv, evs, sentLog>>
  /\ UNCHANGED stopVars

\* stop(): await self._task raises CancelledError past except Exception,
\* and _task is not reset
StopAwait ==
  /\ spc = "awaiting"
  /\ dpc = "cancelled"
  /\ spc' = IF Catches("CancelledError") THEN "returned" ELSE "raised"
  /\ UNCHANGED stopQueued
  /\ UNCHANGED pubVars

NextPubStop ==
  \/ \E c \in Clients :
       HandlerRegister(c) /\ UNCHANGED <<stopVars, notPubStop>>
  \/ \E c \in Clients :
       HandlerSubscribe(c) /\ UNCHANGED <<stopVars, notPubStop>>
  \/ \E p \in ChurnPubs :
       Publish(p, MaxEvents, SmallQueue) /\ UNCHANGED <<stopVars, notPubStop>>
  \/ \E p \in ChurnPubs :
       PutResume(p, SmallQueue) /\ UNCHANGED <<stopVars, notPubStop>>
  \/ Start /\ UNCHANGED <<stopVars, notPubStop>>
  \/ Dequeue /\ UNCHANGED <<stopVars, notPubStop>>
  \/ Send({TRUE}) /\ UNCHANGED <<stopVars, notPubStop>>
  \/ StopBegin /\ UNCHANGED notPubStop
  \/ RunCancelled /\ UNCHANGED notPubStop
  \/ StopAwait /\ UNCHANGED notPubStop

vars == <<bookVars, repoVars, snapVars, pubVars, lateVars>>

Init ==
  /\ InitBook /\ InitRepo /\ InitSnap /\ InitPub /\ InitNorm /\ InitFm
  /\ InitNz /\ InitPoll /\ InitReplay /\ InitSess /\ InitStop

SpecRepoRunning ==
  /\ Init
  /\ [][NextRepoRunning]_vars
  /\ WF_vars(FlusherStep)
  /\ \A p \in Producers : WF_vars(InsertStep(p))

SpecPubStop == Init /\ [][NextPubStop]_vars

SpecSess == Init /\ [][NextSess]_vars

SpecPubNorm == Init /\ [][NextPubNorm]_vars

SpecFm == Init /\ [][NextFm]_vars

SpecFmPollers == Init /\ [][NextFmPollers]_vars

SpecFmBooks == Init /\ [][NextFmBooks]_vars

SpecNz == Init /\ [][NextNz]_vars

SpecFetchLoop == Init /\ [][NextFetchLoop]_vars

SpecPollers == Init /\ [][NextPollers]_vars

SpecReplay == Init /\ [][NextReplay]_vars

SpecSnap == Init /\ [][NextSnap]_vars

SpecPub == Init /\ [][NextPub]_vars

SpecPubApi == Init /\ [][NextPubApi]_vars

SpecPubQueue == Init /\ [][NextPubQueue]_vars

SpecBook == Init /\ [][NextBook]_vars

SpecRepo == Init /\ [][NextRepo]_vars

(***************************************************************************)
(* Claims about the book state machine.                                    *)
(***************************************************************************)
Range(seq) == {seq[i] : i \in 1..Len(seq)}

IsDesc(seq) == \A i \in 1..(Len(seq) - 1) : seq[i][1] > seq[i + 1][1]
IsAsc(seq) == \A i \in 1..(Len(seq) - 1) : seq[i][1] < seq[i + 1][1]

\* the levels of a snapshot's side with the written sizes w laid over them:
\* a written size 0 removes the price, any other written size replaces it
Merged(levels, w) ==
  {pq \in Prices \X Qtys :
     IF w[pq[1]] # NoWrite
       THEN w[pq[1]] # 0 /\ pq[2] = w[pq[1]]
       ELSE pq[2] = LastWrite(levels, pq[1], NoWrite)}

\* the symbol's state and emitted book are snapshot snap with writes bw, aw
BookIs(sym, snap, bw, aw) ==
  LET out == GetBook(state, sym)
  IN /\ Range(out.bids) = Merged(snap.bids, bw)
     /\ Len(out.bids) = Cardinality(Merged(snap.bids, bw))
     /\ IsDesc(out.bids)
     /\ Range(out.asks) = Merged(snap.asks, aw)
     /\ Len(out.asks) = Cardinality(Merged(snap.asks, aw))
     /\ IsAsc(out.asks)

Called == call.sym # ""

\* C1: a gap-free run of deltas after a snapshot S (d1.U = L+1, each next U
\* = previous u + 1, U <= u) is applied whole: every call returned True,
\* no fetch followed the snapshot, last_update_id is the last u, and the
\* emitted book is S with the run's levels applied in order.
C1_GapFreeRunApplied ==
  (chain.valid /\ chain.n >= 1) =>
    /\ chain.good
    /\ call.ret
    /\ state[call.sym].last_update_id = chain.next - 1
    /\ GetBook(state, call.sym).sequence = call.u
    /\ BookIs(call.sym, chain.S, chain.bw, chain.aw)

C1_Witness ==
  /\ chain.valid /\ chain.n >= 2
  /\ chain.bw[1] = 0 /\ chain.aw[2] = 2
  /\ chain.S.bids # << >>

\* C2: with a snapshot held (last_update_id = L), a delta with U > L + 1
\* returns False, makes the fetcher be called at least once in that call
\* and leaves the book as the fetched snapshot, none of its levels applied.
C2_GapResyncs ==
  (Called /\ call.hadSnap /\ call.U # None /\ call.U > call.preLast + 1) =>
    /\ ~call.ret
    /\ call.nfetch >= 1
    /\ state[call.sym].last_update_id = lastSnap.lastUpdateId
    /\ BookIs(call.sym, lastSnap, NoWrites, NoWrites)

C2_Witness ==
  /\ Called /\ call.hadSnap /\ call.U # None /\ call.u # None
  /\ call.U > call.preLast + 1
  /\ snapshot_calls >= 2

\* C3: every delta with integer U and u for which process_depth_delta
\* returns True leaves last_update_id strictly greater than the value the
\* delta was judged against.
C3_AppliedStrictlyIncreases ==
  (Called /\ call.ret /\ call.U # None /\ call.u # None) =>
    state[call.sym].last_update_id > call.evalLast

\* C4: on a symbol without snapshot one snapshot is fetched, and a delta
\* with u <= its lastUpdateId is dropped: False is returned, the fetcher was
\* called exactly once in the call and the book is the fetched snapshot.
C4_StaleFirstDeltaDropped ==
  (Called /\ ~call.hadSnap /\ call.u # None
          /\ call.u <= call.firstSnap.lastUpdateId) =>
    /\ ~call.ret
    /\ call.nfetch = 1
    /\ state[call.sym].last_update_id = call.firstSnap.lastUpdateId
    /\ BookIs(call.sym, call.firstSnap, NoWrites, NoWrites)

C4_Witness ==
  /\ Called /\ ~call.hadSnap /\ call.u # None /\ call.U # None
  /\ call.u = call.firstSnap.lastUpdateId
  /\ call.U = call.u + 1
  /\ call.firstSnap.bids # << >>

\* C5: a delta without U or without u returns False, applies none of its
\* levels and leaves the state reset from a snapshot fetched in that call,
\* with or without a snapshot held before.
C5_MissingSequenceResyncs ==
  (Called /\ (call.U = None \/ call.u = None)) =>
    /\ ~call.ret
    /\ call.nfetch >= 1
    /\ state[call.sym].last_update_id = lastSnap.lastUpdateId
    /\ BookIs(call.sym, lastSnap, NoWrites, NoWrites)

C5_Witness ==
  /\ Called /\ call.hadSnap /\ call.U # None /\ call.u = None
  /\ call.U = call.preLast + 1
  /\ lastSnap.bids # << >>

Crossed(out) ==
  /\ out.bids # << >> /\ out.asks # << >>
  /\ out.bids[1][1] >= out.asks[1][1]

\* C6: the book held for a symbol is never crossed: with both sides
\* non-empty the highest bid is strictly below the lowest ask.
C6_NeverCrossed ==
  \A sym \in DOMAIN state : ~Crossed(GetBook(state, sym))

\* C7: connector_restarts_total equals the number of resyncs (snapshot
\* fetches) performed.
C7_RestartsCountResyncs == connector_restarts = snapshot_calls

(***************************************************************************)
(* Claims about the repo.                                                  *)
(***************************************************************************)
RowsOf(t) == {i \in DOMAIN rows : rows[i] = t}

\* C8: once shutdown() has returned, every trade whose insert_trade
\* completed before shutdown was called is stored as exactly one row.
C8_AllStoredAfterShutdown ==
  pc["closer"] = "returned" =>
    \A t \in doneAtShutdown : Cardinality(RowsOf(t)) = 1

\* C9: the trades of a batch whose commit failed stay queued (or are
\* stored by a later flush): none of them is lost.
C9_FailedBatchRetained ==
  \A t \in failedTrades :
    \/ t \in Range(batch)
    \/ t \in Range(rows)
    \/ \E k \in Tasks : t \in Range(to_flush[k])

\* C10: storage keeps insertion order: when insert_trade(a) completed
\* before insert_trade(b) started and b is stored, a is stored before b (in
\* an earlier transaction or earlier in the same one).
C10_InsertionOrderKept ==
  \A j \in DOMAIN rows :
    \A a \in before[rows[j]] :
      \E i \in 1..(j - 1) : rows[i] = a

\* C11 as stated: the batch lock is never held while a flush's commit is in
\* progress, so a concurrent insert_trade could take it during the commit.
C11_LockFreeDuringCommit ==
  \A t \in Tasks : pc[t] = "commit" => lockOwner # t

\* C11 as the code behaves: the task that flushes keeps the batch lock
\* from the swap-and-clear until its commit has ended; while a commit is
\* in progress the batch stays empty, and an insert_trade that arrives is
\* queued on the lock with its trade not yet appended.
C11_LockHeldAcrossCommit ==
  \A t \in Tasks :
    pc[t] = "commit" =>
      /\ lockOwner = t
      /\ batch = << >>
      /\ \A p \in Producers \ {t} : pc[p] # "idle" => pc[p] = "wait_lock"

C11_Witness ==
  \E t \in Tasks, p \in Producers :
    /\ p # t
    /\ pc[t] = "commit"
    /\ pc[p] = "wait_lock"
    /\ lockOwner = t

\* the rows stored for one (source, instrument)
RowsFor(k) ==
  { i \in 1..Len(snapRows) :
      snapRows[i].source = k[1] /\ snapRows[i].instrument = k[2] }

\* C12: whatever the interleaving of concurrent insert_snapshot calls, the
\* table holds at most one row per (source, instrument), and exactly one
\* once a call for that pair has committed.
C12_OneRowPerPair ==
  \A k \in SnapKeys :
    /\ Cardinality(RowsFor(k)) <= 1
    /\ lastRow[k] # 0 => Cardinality(RowsFor(k)) = 1

\* C13: once a call for a (source, instrument) has committed, what is
\* stored for the pair has the sequence, bids, asks and ts of the call that
\* committed last, whether its sequence is above or below the one stored
\* before.
C13_LastCommitWins ==
  \A k \in SnapKeys :
    lastRow[k] # 0 =>
      /\ lastRow[k] \in RowsFor(k)
      /\ \A i \in RowsFor(k) :
           /\ snapRows[i].sequence = lastCommit[k].sequence
           /\ snapRows[i].data = lastCommit[k].data

(***************************************************************************)
(* Claims about the publisher.                                             *)
(***************************************************************************)
\* the events a send to client c was attempted for
SentTo(c) == Range(sentLog[c])

\* C14 as stated: every client subscribed to an event's instrument when
\* publish was called has received the event once the dispatcher is done
\* with it.
C14_SubscribedAtPublishReceive ==
  \A e \in DOMAIN evs :
    evs[e].done /\ ~evs[e].old =>
      \A c \in evs[e].atPublish : e \in SentTo(c) /\ c \notin evs[e].failed

\* C14 as the code behaves: once the dispatcher is done with an event, a
\* send of it was attempted to every client that was in subs[instrument]
\* when the dispatcher dequeued it, whoever was subscribed at publish time.
C14_SubscribedAtDequeueSent ==
  \A e \in DOMAIN evs :
    evs[e].done /\ ~evs[e].old =>
      \A c \in evs[e].atDequeue : e \in SentTo(c)

C14_Witness ==
  \E e \in DOMAIN evs :
    /\ evs[e].done /\ ~evs[e].old
    /\ evs[e].atPublish \ evs[e].atDequeue # {}
    /\ evs[e].atDequeue \ evs[e].atPublish # {}
    /\ \A c \in evs[e].atDequeue : e \in SentTo(c)
    /\ \A c \in evs[e].atPublish \ evs[e].atDequeue : e \notin SentTo(c)

\* C15: the events one producer published for one instrument are sent to
\* each client in the order the producer published them, also when a
\* publish had to wait for room in the queue and the other producer
\* published in between.
C15_ProducerOrderKept ==
  \A c \in Clients :
    \A i, j \in DOMAIN sentLog[c] :
      /\ i < j
      /\ evs[sentLog[c][i]].producer = evs[sentLog[c][j]].producer
      /\ evs[sentLog[c][i]].instrument = evs[sentLog[c][j]].instrument
      => sentLog[c][i] < sentLog[c][j]

C15_Witness ==
  \E c \in Clients :
    \E i, j \in DOMAIN sentLog[c] :
      LET a == sentLog[c][i]
          b == sentLog[c][j]
      IN /\ i < j
         /\ evs[a].producer = evs[b].producer
         /\ evs[a].instrument = evs[b].instrument
         /\ evs[b].blockedPut
         /\ \E x \in DOMAIN evs :
              a < x /\ x < b /\ evs[x].producer # evs[a].producer

\* C16: an event is sent only to clients that were in subs[instrument]
\* when the dispatcher dequeued it, and an event without instrument is
\* sent to no one.
C16_OnlySubscribersSent ==
  \A e \in DOMAIN evs :
    ~evs[e].old =>
      \A c \in Clients :
        e \in SentTo(c) => c \in evs[e].atDequeue /\ evs[e].instrument # ""

C16_Witness ==
  \E e \in DOMAIN evs :
    \E c, d \in Clients :
      /\ evs[e].done /\ ~evs[e].old
      /\ evs[e].instrument = "BTC/USDT"
      /\ e \in SentTo(c)
      /\ d \in clients
      /\ d \in DOMAIN client_subs /\ client_subs[d] = {"ETH/USDT"}
      /\ d \in SubscribersOf("ETH/USDT")
      /\ e \notin SentTo(d)
      /\ \E f \in DOMAIN evs : evs[f].done /\ evs[f].instrument = ""
                               /\ \A x \in Clients : f \notin SentTo(x)

\* the instruments that occur as keys
Instruments == { Norm(w) : w \in WireInstruments }

\* C17: after any sequence of register, subscribe, unsubscribe and
\* unregister calls, instrument I is in client_subs[c] exactly when client
\* c is in subs[I].
C17_IndicesCoherent ==
  \A c \in Clients, i \in Instruments :
    (c \in DOMAIN client_subs /\ i \in client_subs[c])
      <=> (i \in DOMAIN subs /\ c \in subs[i])

\* C18: once unregister(c) has returned, c is in no subs set, has no
\* client_subs entry and is not in clients, so that no later event is sent
\* to it, and no instrument of subs maps to an empty set.
C18_UnregisteredStaysOut ==
  /\ \A c \in Clients :
       Unregistered(c) =>
         /\ c \notin DOMAIN client_subs
         /\ \A i \in DOMAIN subs : c \notin subs[i]
  /\ \A i \in DOMAIN subs : subs[i] # {}

\* C19: when the dispatcher finishes an event, every client whose send
\* raised is unregistered (not in clients, no client_subs entry, in no subs
\* set), a send was attempted to every client that was subscribed when the
\* event was dequeued, and the dispatcher is back at queue.get.
C19_SendFailureIsolated ==
  [][ (dpc = "send" /\ evs'[evt].done) =>
        /\ dpc' = "get"
        /\ \A c \in evs'[evt].failed :
             /\ c \notin clients'
             /\ c \notin DOMAIN client_subs'
             /\ \A i \in DOMAIN subs' : c \notin subs'[i]
        /\ \A c \in evs'[evt].atDequeue : evt \in Range(sentLog'[c]) ]_vars

\* the send of event 1 to one client raised, the other client got events
\* 1 and 2
C19_Witness ==
  \E c, d \in Clients :
    /\ c # d
    /\ hs[c] = "open" /\ Unregistered(c)
    /\ 1 \in SentTo(c) /\ 2 \notin SentTo(c)
    /\ 1 \in SentTo(d) /\ 2 \in SentTo(d)
    /\ evs[2].done /\ evs[2].failed = {}

\* how many times event e occurs in the queue, in a suspended put, and
\* with the dispatcher
Holders(e) ==
  Cardinality({ i \in DOMAIN queue : queue[i] = e })
    + Cardinality({ p \in Pubs : pcur[p] = e })
    + (IF evs[e].done \/ evt = e THEN 1 ELSE 0)

\* C20: the queue never holds more than queue_size events; every event
\* published is in exactly one place: the queue, a suspended put, or the
\* dispatcher's hands; a producer is suspended only for an event that found
\* the queue full, and stays suspended only while the queue is full or a
\* producer woken by a dequeue has yet to run.
C20_NoDropWithinCapacity ==
  /\ Len(queue) <= BurstQueue
  /\ \A e \in DOMAIN evs : Holders(e) = 1
  /\ \A p \in Pubs :
       /\ ppc[p] = "idle" <=> pcur[p] = 0
       /\ ppc[p] # "idle" => evs[pcur[p]].blockedPut
       /\ ppc[p] = "blocked" =>
            /\ \E i \in DOMAIN putters : putters[i] = p
            /\ Len(queue) = BurstQueue \/ \E q \in Pubs : ppc[q] = "woken"
  /\ \A e \in DOMAIN evs :
       ~evs[e].blockedPut /\ ~evs[e].old => \A p \in Pubs : pcur[p] # e

\* an event that found the queue full is in the queue after a dequeue
C20_Witness ==
  \E i \in DOMAIN queue :
    /\ evs[queue[i]].blockedPut
    /\ \E e \in DOMAIN evs : evs[e].done
    /\ Len(queue) = BurstQueue

(***************************************************************************)
(* Claims about instrument spelling.                                       *)
(***************************************************************************)
\* the registered clients whose latest message naming the instrument, in
\* either spelling, was a subscribe
Wanting == { c \in clients : asked[c].op = "subscribe" }

\* the dispatcher takes an event off the queue
DequeueStep == dpc = "get" /\ queue # << >> /\ queue' = Tail(queue)

\* C21: when the dispatcher takes an event published as BTC/USDT it sends it
\* to exactly the registered clients whose latest subscribe or unsubscribe
\* for the instrument, spelled BTC/USDT or BTC-USDT, was a subscribe; an
\* event published as BTC-USDT is looked up under that spelling and goes to
\* no one
C21_SpellingsShareSubscription ==
  [][DequeueStep =>
       remaining' = IF evs[Head(queue)].instrument = "BTC/USDT"
                    THEN Wanting ELSE {}]_vars

\* a client that subscribed as BTC-USDT was sent an event published as
\* BTC/USDT, and a client that subscribed as BTC/USDT and unsubscribed as
\* BTC-USDT was not
C21_Witness ==
  \E c, d \in Clients, e \in DOMAIN evs :
    /\ evs[e].instrument = "BTC/USDT"
    /\ evs[e].done
    /\ asked[c] = [op |-> "subscribe", instrument |-> "BTC-USDT"]
    /\ asked[d] = [op |-> "unsubscribe", instrument |-> "BTC-USDT"]
    /\ d \in clients
    /\ e \in SentTo(c)
    /\ e \notin SentTo(d)

(***************************************************************************)
(* Claims about the feed manager, the cache and the normalizer.            *)
(***************************************************************************)
\* C22: when stop_all is over, by returning or by raising, no trade that
\* was enqueued in the repo is left unpersisted: the final flush has run
C22_StopAllFlushesEnqueued ==
  stop.pc \in {"done", "raised"} => fmBatch = << >>

\* C25: an event that was handed to the publisher was persisted before, and
\* a book had its cache write attempted before; an event whose persistence
\* raised was neither cached nor published
C25_PublishAfterPersistAndCache ==
  \A k \in IngestTasks :
    /\ poller[k].published =>
          /\ poller[k].persisted
          /\ k \in BookTasks => poller[k].cache # "no"
    /\ (poller[k].result = "raised" /\ ~poller[k].persisted) =>
          /\ ~poller[k].published
          /\ poller[k].cache = "no"

\* C26: once ingest_book is over for a book whose cache write failed, the
\* snapshot is persisted, the event was published and ingest_book returned
\* normally; a get_snapshot whose read failed returned None without raising
C26_CacheFailureSwallowed ==
  /\ \A t \in BookTasks :
       (poller[t].cache = "failed"
          /\ poller[t].pc \notin {"publish", "cancelled"}) =>
         /\ poller[t].result = "returned"
         /\ poller[t].published
         /\ poller[t].persisted
         /\ \E i \in 1..Len(fmSnaps) :
              fmSnaps[i].instrument = poller[t].out.instrument
  /\ cacheRead.failed => (~cacheRead.raised /\ cacheRead.value = None)

\* ingest_book returned after a failed cache write, and a cache read failed
C26_Witness ==
  /\ poller["books"].cache = "failed"
  /\ poller["books"].result = "returned"
  /\ poller["books"].published
  /\ cacheRead.called
  /\ cacheRead.failed

\* C27: the normalizer returns no trade without instrument, price or size
\* and no book without instrument
C27_MissingFieldRejected ==
  /\ normCall.kind = "trade" =>
       /\ normCall.out.instrument # NoneStr
       /\ normCall.out.price # None
       /\ normCall.out.size # None
  /\ normCall.kind = "book" => normCall.out.instrument # NoneStr

\* C28: when the trades poller is done with a fetched list, every trade of
\* the list that the repo accepts has been persisted and published
C28_OtherTradesOfFetchIngested ==
  poller["trades"].pc \in {"errsleep", "sleep"} =>
    \A i \in 1..Len(poller["trades"].fetched) :
      ~InsertTradeRaises(normalize_trade(poller["trades"].fetched[i], Source))
        => i \in poller["trades"].ingested

(***************************************************************************)
(* Claims about the polling loops.                                         *)
(***************************************************************************)
\* C23: in fetch_loop a stream whose fetch succeeded starts its next fetch
\* one poll interval later, whatever back-off the other streams sleep
C23_OtherStreamsKeepInterval ==
  \A k \in Streams :
    (flObs[k].fetches >= 2 /\ flObs[k].prevOk) =>
      flObs[k].start - flObs[k].prevStart = REFRESH_INTERVAL

RECURSIVE Pow2(_)
Pow2(n) == IF n = 0 THEN 1 ELSE 2 * Pow2(n - 1)

\* C24: a FeedManager poller whose latest k iterations failed waits
\* min(3 * 2^(k-1), 60) seconds before its next attempt, and nothing once
\* an iteration succeeded
C24_BackoffSchedule ==
  \A p \in PollerNames :
    /\ pollObs[p].run >= 1 =>
         pollObs[p].delay = Min(3 * Pow2(pollObs[p].run - 1), 60)
    /\ pollObs[p].run = 0 => pollObs[p].delay = 0

(***************************************************************************)
(* Claims about the replay engine.                                         *)
(***************************************************************************)
\* the stored rows of the session's instrument within its window, as
\* <<type, rowid>>, each table as it was when stream_replay queried it
InWindow(r) ==
  /\ r.instrument = rpSess.instrument
  /\ r.ts >= rpSess.from_ts
  /\ r.ts <= rpSess.to_ts

Wanted ==
  {<<"trade", i>> : i \in {j \in 1..Len(rpSeen.trades) : InWindow(rpSeen.trades[j])}}
    \cup
  {<<"book", i>> : i \in {j \in 1..Len(rpSeen.snaps) : InWindow(rpSeen.snaps[j])}}

\* the ts column of the row an event was built from
TsOf(e) ==
  IF e.type = "trade" THEN rpSeen.trades[e.id].ts ELSE rpSeen.snaps[e.id].ts

\* the place of an event's row in the result of its query
QueryPos(e) ==
  LET q == Query(IF e.type = "trade" THEN rpSeen.trades ELSE rpSeen.snaps,
                 rpSess.instrument, rpSess.from_ts, rpSess.to_ts)
  IN CHOOSE k \in 1..Len(q) : q[k].id = e.id

\* C29: the events sent are in non-decreasing order of their stored ts,
\* with trades before books and query order within a type when the ts are
\* equal; a replay that ran to its end has sent each trade and each
\* snapshot of the instrument within the window that was stored when its
\* table was queried, once, and nothing else
C29_ReplaySendsWindowInOrder ==
  /\ \A i, j \in 1..Len(rpSent) :
       i < j =>
         /\ TsOf(rpSent[i]) <= TsOf(rpSent[j])
         /\ TsOf(rpSent[i]) = TsOf(rpSent[j]) =>
              /\ ~(rpSent[i].type = "book" /\ rpSent[j].type = "trade")
              /\ rpSent[i].type = rpSent[j].type =>
                   QueryPos(rpSent[i]) < QueryPos(rpSent[j])
  /\ \A k \in 1..Len(rpSent) :
       rpSent[k].type \in {"trade", "book"}
  /\ rpPc = "done" =>
       /\ {<<rpSent[k].type, rpSent[k].id>> : k \in 1..Len(rpSent)} = Wanted
       /\ Len(rpSent) = Cardinality(Wanted)

\* a replay ran to its end over a trade and a snapshot of equal ts, a
\* later trade stored before an earlier one, and a row outside the window,
\* while a trade was committed between its two queries
C29_Witness ==
  /\ rpPc = "done"
  /\ Len(rpSent) = 3
  /\ rpSent[1].type = "trade" /\ rpSent[1].id = 2
  /\ rpSent[2].type = "book"
  /\ TsOf(rpSent[1]) = TsOf(rpSent[2])
  /\ rpSent[3].type = "trade" /\ rpSent[3].id = 1
  /\ Len(rpSeen.snaps) = 2
  /\ Len(rpDb.trades) = 3

RECURSIVE SumSeq(_)
SumSeq(seq) == IF seq = << >> THEN 0 ELSE Head(seq) + SumSeq(Tail(seq))

\* C30: nothing is slept before the first event; the sleep before each
\* later event, times the session's speed, is the difference between its
\* ts and the ts of the event before it, and the event is sent after that
\* sleep; over a replay that ran to its end the sleeps add up to the
\* difference between the last and the first ts divided by the speed
C30_ReplayPacing ==
  /\ \A k \in 1..Len(rpSent) :
       IF k = 1 THEN rpSleeps[k] = 0
       ELSE rpSleeps[k] * rpSess.speed[1] =
              (TsOf(rpSent[k]) - TsOf(rpSent[k - 1])) * rpSess.speed[2]
  /\ rpPc = "slept" =>
       /\ Len(rpSleeps) = Len(rpSent) + 1
       /\ rpSleeps[Len(rpSleeps)] * rpSess.speed[1] =
            (TsOf(Head(rpEvents)) - TsOf(rpSent[Len(rpSent)]))
              * rpSess.speed[2]
  /\ rpPc \in {"loop", "done"} => Len(rpSleeps) = Len(rpSent)
  /\ (rpPc = "done" /\ rpSent # << >>) =>
       SumSeq(rpSleeps) * rpSess.speed[1] =
         (TsOf(rpSent[Len(rpSent)]) - TsOf(rpSent[1])) * rpSess.speed[2]

(***************************************************************************)
(* Claims about replay sessions.                                           *)
(***************************************************************************)
\* the connections whose ws_replay holds a session and has not come to its
\* finally clause
Streaming ==
  {h \in Conns : ws[h].pc \notin {"none", "invalid", "closing", "closed"}}

\* C31: a session is in sessions from create_session until the stream of
\* each handler that looked it up has ended; after an ending by
\* exhaustion, by a failed send, by a query failure or by cancellation
\* get_session(sid) returns nothing, and after a query failure the error
\* event was tried before the removal
C31_SessionRemovedAtStreamEnd ==
  /\ \A e \in ended :
       /\ get_session(sessions, e.sid) = NoSession
       /\ e.how = "query" => e.tried
  /\ \A h \in Streaming :
       get_session(sessions, ws[h].sid) = ws[h].sess

\* C32: every stored session has speed > 0, and none was created for a
\* request whose speed is the number 0
C32_StoredSpeedPositive ==
  \A sid \in DOMAIN sessions :
    /\ sessions[sid].speed[1] > 0
    /\ ~(sessReq[sid].given = "number" /\ sessReq[sid].value[1] = 0)

\* C33: a normalizer applied to the record it returned returns that record
C33_NormalizeIdempotent == normCall.twice => normCall.again = normCall.out

(***************************************************************************)
(* Claims about the stop of the publisher.                                 *)
(***************************************************************************)
\* C34: once stop has cancelled the dispatcher, the dispatcher is neither
\* at queue.get nor in a send, and no event that was in the queue at that
\* moment has been sent to any client
C34_StopDiscardsQueued ==
  spc \in {"awaiting", "raised"} =>
    /\ dpc \in {"cancelling", "cancelled"}
    /\ \A c \in Clients :
         \A i \in 1..Len(sentLog[c]) : sentLog[c][i] \notin stopQueued

\* stop has ended while an event for a subscribed client was in the queue
C34_Witness ==
  /\ spc = "raised"
  /\ \E e \in stopQueued :
       /\ evs[e].instrument = "BTC/USDT"
       /\ SubscribersOf("BTC/USDT") # {}
       /\ e \in Range(queue)

(***************************************************************************)
(* Further claims about the book state machine.                            *)
(***************************************************************************)
\* C35: with a snapshot held (last_update_id = L), a delta carrying U and u
\* is applied, with last_update_id set to u and no fetch, exactly when
\* U = L + 1 or U <= L + 1 <= u; otherwise the call returns False after one
\* fetch and leaves last_update_id at the fetched lastUpdateId.  L is the
\* value held when the call began, also when a resync has set it.
C35_AppliedExactlyOnRule ==
  (Called /\ call.hadSnap /\ call.U # None /\ call.u # None) =>
    IF \/ call.U = call.preLast + 1
       \/ (call.U <= call.preLast + 1 /\ call.preLast + 1 <= call.u)
    THEN /\ call.ret
         /\ call.nfetch = 0
         /\ state[call.sym].last_update_id = call.u
    ELSE /\ ~call.ret
         /\ call.nfetch = 1
         /\ state[call.sym].last_update_id = lastSnap.lastUpdateId

\* after a resync the next delta, one that covers the new L + 1 without
\* starting at it, was applied
C35_Witness ==
  /\ Called /\ call.hadSnap /\ call.ret
  /\ snapshot_calls >= 2
  /\ call.preLast = lastSnap.lastUpdateId
  /\ call.U < call.preLast + 1
  /\ call.u > call.preLast + 1
  /\ calls = MaxCalls

\* C36: the book get_book emitted has bids in strictly descending and asks
\* in strictly ascending price order, and every level has a size > 0
C36_EmittedSortedPositive ==
  /\ IsDesc(book_out.bids)
  /\ IsAsc(book_out.asks)
  /\ \A i \in 1..Len(book_out.bids) : book_out.bids[i][2] > 0
  /\ \A i \in 1..Len(book_out.asks) : book_out.asks[i][2] > 0

\* C37: without a shutdown, a trade that is in the batch is eventually
\* among the committed rows
C37_EnqueuedEventuallyCommitted ==
  \A t \in 1..MaxTrades : (t \in Range(batch)) ~> (t \in Range(rows))

\* one side of the state holds exactly the levels of a snapshot's list,
\* the last size of a price that occurs twice
SideIs(book, levels) ==
  /\ DOMAIN book = {levels[i][1] : i \in 1..Len(levels)}
  /\ \A p \in DOMAIN book : book[p] = LastWrite(levels, p, None)

\* C38: after a call of process_depth_delta that returned False the state
\* of the symbol is the snapshot the fetcher returned last, fetched in that
\* call: its lastUpdateId, its bids and its asks, and nothing else
C38_RejectedLeavesFreshSnapshot ==
  (Called /\ ~call.ret) =>
    /\ call.nfetch >= 1
    /\ state[call.sym].last_update_id = lastSnap.lastUpdateId
    /\ SideIs(state[call.sym].bids, lastSnap.bids)
    /\ SideIs(state[call.sym].asks, lastSnap.asks)

\* a delta with a gap was rejected on a symbol that held levels, and the
\* fetcher returned the empty book
C38_Witness ==
  /\ Called /\ ~call.ret /\ call.hadSnap
  /\ call.U # None /\ call.u # None
  /\ call.U > call.preLast + 1
  /\ call.nfetch = 1
  /\ lastSnap.bids = << >> /\ lastSnap.asks = << >>
  /\ state[call.sym].bids = EmptyDict
  /\ calls >= 3

(***************************************************************************)
(* Further claims about the publisher.                                     *)
(***************************************************************************)
\* C39: every client that is in some subs set or has a client_subs entry
\* is in clients
C39_IndexedClientsRegistered ==
  \A c \in Clients :
    (c \in DOMAIN client_subs \/ \E i \in DOMAIN subs : c \in subs[i])
      => c \in clients

\* C40: when the dispatcher begins a send, no client it has still to send
\* the event to, the one it begins with included, is a client whose
\* unregister has returned
C40_NoSendAfterUnregister ==
  [][ (dpc' = "send" /\ <<evt, remaining>>' # <<evt, remaining>>) =>
        \A c \in remaining' : ~Unregistered(c)' ]_vars

====
